---------------------------- MODULE Spec2Model ----------------------------
(***************************************************************************)
(* Sheet-music clef conversion: the clef transposer (core/clef_converter), *)
(* the clef position arithmetic and the note names of utils/music_utils,   *)
(* the timing normaliser (core/midi_converter), the conversion pipeline    *)
(* with its progress tracker (core/converter), the recognition heuristics  *)
(* (core/omr_engine) and the task records of the web front end (web/app).  *)
(*                                                                         *)
(* Times are integers in ticks of 1/400 s, so that 0.1 s (40), 0.125 s     *)
(* (50), 0.31 s (124) and 0.5 s (200) are all exact.                       *)
(***************************************************************************)
EXTENDS Integers, Sequences, FiniteSets, TLC

VARIABLES
    \* ---- clef transposition (ClefConverter of core/clef_converter.py) ----
    inNotes,        \* the note list the caller built
    argNotes,       \* the list handed to the latest call, as it was before the call
    curNotes,       \* the same list object after the call returned
    outNotes,       \* the list the latest call returned
    ops,            \* the conversions called so far, oldest first
    ccp,            \* the calls of music_utils.convert_clef_position
    rr,             \* the latest call of convert_recognition_result
    vc,             \* the latest call of validate_conversion
    \* ---- timing normalisation (MIDIConverter of core/midi_converter.py) ----
    tNotes,         \* the note list the caller holds: the input, then each result
    tArg,           \* the list handed to the latest call, as it was before the call
    tCur,           \* the same list object after the call returned
    tOp,            \* the latest call: its name and its resolution
    tErr,           \* TRUE when the latest call raised instead of returning
    tCount,         \* number of calls made so far
    \* ---- conversion pipeline (ClefConverter of core/converter.py) ----
    progress,       \* the ConversionProgress of the converter instance
    pc,             \* position of convert_single: "idle", "step1" .. "step6", "returned"
    run,            \* the running convert_single: its arguments and its locals
    result,         \* how the latest convert_single ended
    events,         \* calls _notify_callbacks made during the current convert_single
    overall,        \* calls file_progress_callback made to a batch caller's observer
    batch,          \* the running convert_batch: its loop state and its return value
    cells,          \* per convert_batch call, the variables its closures share
    calls,          \* number of convert_single runs started on this instance
    \* ---- recognition heuristics (OMREngine of core/omr_engine.py) ----
    omrImage,       \* the image handed to detect_staff_lines, as rows of dark-pixel counts
    omrLines,       \* the latest call of detect_staff_lines
    omrPos,         \* the latest call of _calculate_staff_position
    omrPitch,       \* the latest call of _staff_position_to_pitch
    omrRec,         \* the latest call of recognize_basic
    noteName,       \* the latest midi_to_note_name / note_name_to_midi round trip
    \* ---- web front end (create_app of web/app.py) ----
    conversion_tasks, \* the task records, by task id
    requests,       \* the start_conversion requests being handled, by request
    threads,        \* the background conversions started so far
    statusLog       \* every value written to task['status'], oldest first

clefVars == <<inNotes, argNotes, curNotes, outNotes, ops, ccp, rr, vc>>
timingVars == <<tNotes, tArg, tCur, tOp, tErr, tCount>>
pipeVars == <<progress, pc, run, result, events, overall, batch, cells, calls>>
omrVars == <<omrImage, omrLines, omrPos, omrPitch, omrRec, noteName>>
webVars == <<conversion_tasks, requests, threads, statusLog>>
vars == <<inNotes, argNotes, curNotes, outNotes, ops, ccp, rr, vc,
          tNotes, tArg, tCur, tOp, tErr, tCount,
          progress, pc, run, result, events, overall, batch, cells, calls,
          omrImage, omrLines, omrPos, omrPitch, omrRec, noteName,
          conversion_tasks, requests, threads, statusLog>>

(***************************************************************************)
(* Bounds of the model                                                     *)
(***************************************************************************)
MaxNotes == 2       \* longest note list handed to a conversion
PosBound == 21      \* staff positions range over -PosBound .. PosBound
MaxOps == 2         \* conversions chained on one note list
MaxTimingNotes == 2 \* longest note list handed to a timing function
MaxTimingOps == 2   \* timing calls chained on one note list
MaxRuns == 2        \* convert_single runs on one converter instance
MaxFiles == 2       \* input files of one convert_batch call
MaxDetected == 2    \* notes the recogniser returns for one image

Range(s) == {s[i] : i \in 1..Len(s)}
SeqsUpTo(S, n) == UNION {[1..k -> S] : k \in 0..n}

(***************************************************************************)
(* models/note.py: a note and its constructor                              *)
(***************************************************************************)
NoAccidental == "none"
DefaultVelocity == 64
DefaultStaffPosition == 0
DefaultTie == FALSE
DefaultDot == FALSE

Note(pitch, start_time, duration, velocity, staff_position, accidental, tie, dot) ==
    [pitch |-> pitch, start_time |-> start_time, duration |-> duration,
     velocity |-> velocity, staff_position |-> staff_position,
     accidental |-> accidental, tie |-> tie, dot |-> dot]

end_time(note) == note.start_time + note.duration

(***************************************************************************)
(* models/: ScoreMetadata and RecognitionResult                            *)
(***************************************************************************)
NoMetadata == [none |-> TRUE]       \* metadata is None

ScoreMetadata(time_signature, key_signature, tempo, clef_type, title, composer) ==
    [time_signature |-> time_signature, key_signature |-> key_signature,
     tempo |-> tempo, clef_type |-> clef_type, title |-> title,
     composer |-> composer]

RecognitionResult(notes, metadata, measures, confidence, processing_time, image_path, errors, warnings) ==
    [notes |-> notes, metadata |-> metadata, measures |-> measures,
     confidence |-> confidence, processing_time |-> processing_time,
     image_path |-> image_path, errors |-> errors, warnings |-> warnings]

\* result.add_warning(text): the text is appended to result.warnings
add_warning(res, text) == [res EXCEPT !.warnings = Append(@, text)]

(***************************************************************************)
(* core/clef_converter.py                                                  *)
(***************************************************************************)
ALTO_TO_TREBLE_OFFSET == -6

\* CLEF_POSITION_MAP['alto_to_treble'], entry by entry
AltoToTrebleTable ==
    (-10 :> -16) @@ (-9 :> -15) @@ (-8 :> -14) @@ (-7 :> -13) @@
    (-6 :> -12) @@ (-5 :> -11) @@ (-4 :> -10) @@ (-3 :> -9) @@
    (-2 :> -8) @@ (-1 :> -7) @@ (0 :> -6) @@ (1 :> -5) @@
    (2 :> -4) @@ (3 :> -3) @@ (4 :> -2) @@ (5 :> -1) @@
    (6 :> 0) @@ (7 :> 1) @@ (8 :> 2) @@ (9 :> 3) @@
    (10 :> 4) @@ (11 :> 5) @@ (12 :> 6) @@ (13 :> 7) @@
    (14 :> 8) @@ (15 :> 9) @@ (16 :> 10)

\* the literal the reverse table is generated from (lines 55-61)
TrebleToAltoSource ==
    (-10 :> -16) @@ (-9 :> -15) @@ (-8 :> -14) @@ (-7 :> -13) @@
    (-6 :> -12) @@ (-5 :> -11) @@ (-4 :> -10) @@ (-3 :> -9) @@
    (-2 :> -8) @@ (-1 :> -7) @@ (0 :> -6) @@ (1 :> -5) @@
    (2 :> -4) @@ (3 :> -3) @@ (4 :> -2) @@ (5 :> -1) @@
    (6 :> 0) @@ (7 :> 1) @@ (8 :> 2) @@ (9 :> 3) @@
    (10 :> 4) @@ (11 :> 5) @@ (12 :> 6) @@ (13 :> 7) @@
    (14 :> 8) @@ (15 :> 9) @@ (16 :> 10)

\* a reverse table that repeats the forward table instead of inverting it
MutTrebleToAltoNotInverted == TrebleToAltoSource

\* {v: k for k, v in {...}.items()}
TrebleToAltoTable ==
    [v \in {TrebleToAltoSource[k] : k \in DOMAIN TrebleToAltoSource} |->
        CHOOSE k \in DOMAIN TrebleToAltoSource : TrebleToAltoSource[k] = v]

CLEF_POSITION_MAP ==
    [alto_to_treble |-> AltoToTrebleTable, treble_to_alto |-> TrebleToAltoTable]

conversion_key(from_clef, to_clef) ==
    IF from_clef = "alto" /\ to_clef = "treble" THEN "alto_to_treble"
    ELSE IF from_clef = "treble" /\ to_clef = "alto" THEN "treble_to_alto"
    ELSE "other"

\* a table-only conversion: outside the table the position is returned as it is
MutConvertStaffPositionNoFallback(position, from_clef, to_clef) ==
    LET key == conversion_key(from_clef, to_clef) IN
    IF key \in DOMAIN CLEF_POSITION_MAP /\ position \in DOMAIN CLEF_POSITION_MAP[key]
    THEN CLEF_POSITION_MAP[key][position]
    ELSE position

_convert_staff_position(position, from_clef, to_clef) ==
    LET key == conversion_key(from_clef, to_clef) IN
    IF key \in DOMAIN CLEF_POSITION_MAP /\ position \in DOMAIN CLEF_POSITION_MAP[key]
    THEN CLEF_POSITION_MAP[key][position]
    ELSE IF key \in DOMAIN CLEF_POSITION_MAP /\ from_clef = "alto" /\ to_clef = "treble"
    THEN position + ALTO_TO_TREBLE_OFFSET
    ELSE IF key \in DOMAIN CLEF_POSITION_MAP /\ from_clef = "treble" /\ to_clef = "alto"
    THEN position - ALTO_TO_TREBLE_OFFSET
    ELSE position    \* default: the position as it came

\* one iteration of the loop: Note(...) is built from seven fields of the source
\* note (staff_position is left to the constructor), then staff_position is set
ConvertedNote(note, from_clef, to_clef) ==
    [Note(note.pitch, note.start_time, note.duration, note.velocity,
          DefaultStaffPosition, note.accidental, note.tie, note.dot)
     EXCEPT !.staff_position =
         _convert_staff_position(note.staff_position, from_clef, to_clef)]

\* a conversion that does not pass the dot flag to the constructor
MutConvertAltoToTrebleDropsDot(notes) ==
    [notes |-> notes,
     converted_notes |->
        [i \in 1..Len(notes) |->
            [ConvertedNote(notes[i], "alto", "treble") EXCEPT !.dot = DefaultDot]]]

\* both return the post-call value of the argument list and the returned list
convert_alto_to_treble(notes) ==
    [notes |-> notes,
     converted_notes |->
        [i \in 1..Len(notes) |-> ConvertedNote(notes[i], "alto", "treble")]]

convert_treble_to_alto(notes) ==
    [notes |-> notes,
     converted_notes |->
        [i \in 1..Len(notes) |-> ConvertedNote(notes[i], "treble", "alto")]]

(***************************************************************************)
(* utils/music_utils.py                                                    *)
(***************************************************************************)
ClefTags == {"treble", "alto", "bass", "tenor", "soprano", "mezzo", "baritone"}

clef_offsets ==
    [treble |-> -6, alto |-> 0, bass |-> 6, tenor |-> 2,
     soprano |-> -8, mezzo |-> -4, baritone |-> 4]

convert_clef_position(staff_position, from_clef, to_clef) ==
    IF from_clef \notin DOMAIN clef_offsets \/ to_clef \notin DOMAIN clef_offsets
    THEN staff_position
    ELSE LET relative_position == staff_position - clef_offsets[from_clef]
         IN  relative_position + clef_offsets[to_clef]

(***************************************************************************)
(* Inputs of the clef specification                                        *)
(***************************************************************************)
Positions == -PosBound..PosBound

\* the fields of a note other than its staff position
NoteProfiles ==
    { [pitch |-> 60, start_time |-> 0, duration |-> 200, velocity |-> 64,
       accidental |-> NoAccidental, tie |-> FALSE, dot |-> FALSE],
      [pitch |-> 72, start_time |-> 200, duration |-> 100, velocity |-> 80,
       accidental |-> "sharp", tie |-> TRUE, dot |-> FALSE],
      [pitch |-> 55, start_time |-> 124, duration |-> 400, velocity |-> 100,
       accidental |-> "flat", tie |-> FALSE, dot |-> TRUE],
      [pitch |-> 67, start_time |-> 400, duration |-> 50, velocity |-> 64,
       accidental |-> "natural", tie |-> TRUE, dot |-> TRUE] }

\* the i-th position of a list whose first note sits at p0: the positions of a
\* list step through the whole range
PositionAt(p0, i) == ((p0 + PosBound + (i - 1) * 13) % (2 * PosBound + 1)) - PosBound

NoteList(p0, profiles) ==
    [i \in 1..Len(profiles) |->
        Note(profiles[i].pitch, profiles[i].start_time, profiles[i].duration,
             profiles[i].velocity, PositionAt(p0, i), profiles[i].accidental,
             profiles[i].tie, profiles[i].dot)]

ClefInputs ==
    {NoteList(p0, pr) : p0 \in Positions, pr \in SeqsUpTo(NoteProfiles, MaxNotes)}

CcpIdle == [stage |-> 0, p |-> 0, a |-> "alto", b |-> "alto", r1 |-> 0, r2 |-> 0]

CcpInputs ==
    {[stage |-> 0, p |-> p, a |-> a, b |-> b, r1 |-> 0, r2 |-> 0] :
        p \in Positions, a \in ClefTags \cup {"percussion"},
        b \in ClefTags \cup {"percussion"}}

NoTimingOp == [name |-> "none", resolution |-> 0]

TimingIdle ==
    /\ tNotes = <<>> /\ tArg = <<>> /\ tCur = <<>> /\ tOp = NoTimingOp
    /\ tErr = FALSE /\ tCount = 0

NoObserver == [kind |-> "none", id |-> 0, nth |-> 0]

NewProgress ==
    [total_steps |-> 0, current_step |-> 0, current_operation |-> "",
     started |-> FALSE, callbacks |-> <<>>]

NoRecognition ==
    RecognitionResult(<<>>, ScoreMetadata(<<4, 4>>, "C", 120, "none", "", ""),
                      <<>>, 0, 0, "", <<>>, <<>>)
NoResultCall ==
    [called |-> FALSE, count |-> 0, arg |-> NoRecognition, target |-> "none",
     cur |-> NoRecognition, raised |-> FALSE, exc |-> "", same |-> FALSE,
     returned |-> NoRecognition]
NoValidation ==
    [called |-> FALSE, original |-> <<>>, converted |-> <<>>, returned |-> FALSE]

NoFile ==
    [exists |-> FALSE, suffix |-> "", size |-> 0, decodable |-> FALSE,
     width |-> 0, height |-> 0]
NoRun ==
    [input_path |-> 0, file |-> NoFile, preprocessor |-> "none",
     formats |-> <<>>, progress_callback |-> NoObserver,
     recognition_result |-> NoRecognition, converted_result |-> NoRecognition,
     output_files |-> {}]
NoResult == [outcome |-> "none"]
NoBatch == [active |-> FALSE, outcome |-> "none"]

PipeIdle ==
    /\ progress = NewProgress /\ pc = "idle" /\ run = NoRun /\ result = NoResult
    /\ events = <<>> /\ overall = <<>> /\ batch = NoBatch /\ cells = <<>>
    /\ calls = 0

NoArray == [height |-> 0, width |-> 0, rows |-> <<>>, lines |-> <<>>]
NoStaffCall == [called |-> FALSE, raised |-> FALSE, returned |-> <<>>]
NoPosCall == [called |-> FALSE, y |-> 0, staff_lines |-> <<>>, returned |-> 0]
NoPitchCall == [called |-> FALSE, position |-> 0, clef |-> "none", returned |-> 0]
NoRecCall ==
    [called |-> FALSE, clef_type |-> "none", staff_lines |-> <<>>,
     contours |-> <<>>, returned |-> NoRecognition]
NoNameCall ==
    [stage |-> 0, formatted |-> FALSE, midi_pitch |-> 0, use_sharps |-> TRUE,
     name |-> <<>>,
     returned |-> 0]

OmrIdle ==
    /\ omrImage = NoArray /\ omrLines = NoStaffCall /\ omrPos = NoPosCall
    /\ omrPitch = NoPitchCall /\ omrRec = NoRecCall /\ noteName = NoNameCall

MaxRequests == 2    \* concurrent start_conversion requests on one task id
TaskIds == {1}
Requests == 1..MaxRequests
NoTask ==
    [present |-> FALSE, status |-> "none", progress |-> 0, message |-> "",
     output_files |-> {}, error |-> "None"]
NoRequest == [pc |-> "idle", task_id |-> 0, response |-> 0]

WebIdle ==
    /\ conversion_tasks = [t \in TaskIds |-> NoTask]
    /\ requests = [r \in Requests |-> NoRequest]
    /\ threads = <<>> /\ statusLog = <<>>

(***************************************************************************)
(* The clef specification: a caller converts a note list, possibly back    *)
(* again, or converts one position with music_utils                        *)
(***************************************************************************)
InitClef ==
    /\ \/ inNotes \in ClefInputs /\ ccp = CcpIdle
       \/ inNotes = <<>> /\ ccp \in CcpInputs
    /\ argNotes = <<>> /\ curNotes = <<>> /\ outNotes = <<>> /\ ops = <<>>
    /\ rr = NoResultCall /\ vc = NoValidation
    /\ TimingIdle
    /\ PipeIdle
    /\ OmrIdle /\ WebIdle

\* the list the next conversion is called with
NextArg == IF ops = <<>> THEN inNotes ELSE outNotes

ConvertAltoToTreble ==
    /\ ccp = CcpIdle /\ Len(ops) < MaxOps
    /\ LET r == convert_alto_to_treble(NextArg) IN
        /\ argNotes' = NextArg
        /\ curNotes' = r.notes
        /\ outNotes' = r.converted_notes
    /\ ops' = Append(ops, "alto_to_treble")
    /\ UNCHANGED <<inNotes, ccp, rr, vc>>
    /\ UNCHANGED timingVars /\ UNCHANGED pipeVars
    /\ UNCHANGED omrVars /\ UNCHANGED webVars

ConvertTrebleToAlto ==
    /\ ccp = CcpIdle /\ Len(ops) < MaxOps
    /\ LET r == convert_treble_to_alto(NextArg) IN
        /\ argNotes' = NextArg
        /\ curNotes' = r.notes
        /\ outNotes' = r.converted_notes
    /\ ops' = Append(ops, "treble_to_alto")
    /\ UNCHANGED <<inNotes, ccp, rr, vc>>
    /\ UNCHANGED timingVars /\ UNCHANGED pipeVars
    /\ UNCHANGED omrVars /\ UNCHANGED webVars

\* convert_clef_position(p, a, b), then the result back with (b, a)
ConvertClefPosition ==
    /\ ccp # CcpIdle /\ ccp.stage = 0
    /\ ccp' = [ccp EXCEPT !.stage = 1,
                          !.r1 = convert_clef_position(ccp.p, ccp.a, ccp.b)]
    /\ UNCHANGED <<inNotes, argNotes, curNotes, outNotes, ops, rr, vc>>
    /\ UNCHANGED timingVars /\ UNCHANGED pipeVars
    /\ UNCHANGED omrVars /\ UNCHANGED webVars

ConvertClefPositionBack ==
    /\ ccp.stage = 1
    /\ ccp' = [ccp EXCEPT !.stage = 2,
                          !.r2 = convert_clef_position(ccp.r1, ccp.b, ccp.a)]
    /\ UNCHANGED <<inNotes, argNotes, curNotes, outNotes, ops, rr, vc>>
    /\ UNCHANGED timingVars /\ UNCHANGED pipeVars
    /\ UNCHANGED omrVars /\ UNCHANGED webVars

NextClef ==
    \/ ConvertAltoToTreble
    \/ ConvertTrebleToAlto
    \/ ConvertClefPosition
    \/ ConvertClefPositionBack

SpecClef == InitClef /\ [][NextClef]_vars

(***************************************************************************)
(* Claims about the clef transposer                                        *)
(***************************************************************************)
SameButPosition(a, b) ==
    /\ a.pitch = b.pitch /\ a.start_time = b.start_time /\ a.duration = b.duration
    /\ a.velocity = b.velocity /\ a.accidental = b.accidental
    /\ a.tie = b.tie /\ a.dot = b.dot

\* C1: convert_alto_to_treble and convert_treble_to_alto return a list of the
\* same length and order as their argument in which every note agrees with the
\* argument's note at the same index in pitch, start_time, duration, velocity,
\* accidental, tie and dot, and they leave the argument list as it was.
C1_TransposePreservesFields ==
    ops # <<>> =>
        /\ Len(outNotes) = Len(argNotes)
        /\ \A i \in 1..Len(argNotes) : SameButPosition(outNotes[i], argNotes[i])
        /\ curNotes = argNotes

C1_Witness ==
    /\ Len(ops) = 1 /\ Len(outNotes) = 2
    /\ outNotes[1].tie /\ outNotes[1].dot /\ outNotes[2].accidental = "flat"
    /\ outNotes[1].staff_position # argNotes[1].staff_position

\* C2: a note at a table-covered alto position p in -10..16 converted to treble
\* and back is at position p again; and convert_clef_position(p, a, b)
\* converted back with (b, a) is p, for every position and clef pair.
C2_RoundTrip ==
    /\ ops = <<"alto_to_treble", "treble_to_alto">> =>
           \A i \in 1..Len(inNotes) :
               inNotes[i].staff_position \in -10..16 =>
                   outNotes[i].staff_position = inNotes[i].staff_position
    /\ ccp.stage = 2 => ccp.r2 = ccp.p

C2_Witness ==
    /\ ops = <<"alto_to_treble", "treble_to_alto">>
    /\ Len(inNotes) = 2
    /\ inNotes[1].staff_position = -10 /\ inNotes[2].staff_position = 3
    /\ outNotes[1].staff_position = -10

\* C3: alto->treble maps every position p to p - 6 and treble->alto maps every
\* position q to q + 6, inside the table and outside it.
C3_ConstantOffset ==
    ops # <<>> =>
        \A i \in 1..Len(argNotes) :
            outNotes[i].staff_position =
                IF ops[Len(ops)] = "alto_to_treble"
                THEN argNotes[i].staff_position - 6
                ELSE argNotes[i].staff_position + 6

C3_Witness ==
    /\ ops = <<"alto_to_treble">> /\ Len(argNotes) = 1
    /\ argNotes[1].staff_position = 20 /\ outNotes[1].staff_position = 14

(***************************************************************************)
(* core/midi_converter.py: calculate_timing and quantize_timing            *)
(***************************************************************************)
MIN_DURATION == 40           \* 0.1 s, line 191
DEFAULT_RESOLUTION == 50     \* 0.125 s, line 198

Min(a, b) == IF a <= b THEN a ELSE b
Max(a, b) == IF a >= b THEN a ELSE b

\* sorted(notes, key=lambda n: n.start_time): stable, ascending
InsertByStart(note, s) ==
    LET later == {i \in 1..Len(s) : s[i].start_time > note.start_time}
        k == IF later = {} THEN Len(s) + 1
             ELSE CHOOSE i \in later : \A j \in later : i <= j
    IN  SubSeq(s, 1, k - 1) \o <<note>> \o SubSeq(s, k, Len(s))

RECURSIVE SortedByStart(_)
SortedByStart(s) ==
    IF s = <<>> THEN <<>>
    ELSE InsertByStart(s[Len(s)], SortedByStart(SubSeq(s, 1, Len(s) - 1)))

\* Note(pitch=, start_time=, duration=, velocity=, staff_position=, accidental=):
\* tie and dot are not passed on (lines 166-173 and 218-225)
TimingCopy(note, start_time, duration) ==
    Note(note.pitch, start_time, duration, note.velocity, note.staff_position,
         note.accidental, DefaultTie, DefaultDot)

\* the backward check (lines 176-180)
PushedStart(note, adjusted_notes) ==
    IF adjusted_notes # <<>>
       /\ note.start_time < end_time(adjusted_notes[Len(adjusted_notes)])
    THEN end_time(adjusted_notes[Len(adjusted_notes)])
    ELSE note.start_time

\* a forward check without the minimum duration: the gap itself is taken
MutFittedDurationNoMinimum(start_time, duration, sorted_notes, i) ==
    IF i < Len(sorted_notes) /\ start_time + duration > sorted_notes[i + 1].start_time
    THEN Min(duration, sorted_notes[i + 1].start_time - start_time)
    ELSE duration

\* the forward check (lines 183-191)
FittedDuration(start_time, duration, sorted_notes, i) ==
    IF i < Len(sorted_notes) /\ start_time + duration > sorted_notes[i + 1].start_time
    THEN LET max_duration == sorted_notes[i + 1].start_time - start_time
         IN  IF max_duration > 0 THEN Min(duration, max_duration) ELSE MIN_DURATION
    ELSE duration

\* a backward check that never pushes a start forward
MutAdjustedNoteNoPush(sorted_notes, i, adjusted_notes) ==
    LET note == sorted_notes[i]
    IN  TimingCopy(note, note.start_time,
                   FittedDuration(note.start_time, note.duration, sorted_notes, i))

\* one iteration of the loop (lines 165-193)
AdjustedNote(sorted_notes, i, adjusted_notes) ==
    LET note == sorted_notes[i]
        start_time == PushedStart(note, adjusted_notes)
    IN  TimingCopy(note, start_time,
                   FittedDuration(start_time, note.duration, sorted_notes, i))

RECURSIVE AdjustedNotes(_, _)
AdjustedNotes(sorted_notes, n) ==
    IF n = 0 THEN <<>>
    ELSE LET before == AdjustedNotes(sorted_notes, n - 1)
         IN  Append(before, AdjustedNote(sorted_notes, n, before))

\* returns the post-call value of the argument list, the returned list, and
\* whether the call raised
calculate_timing(notes) ==
    IF notes = <<>>
    THEN [notes |-> notes, returned |-> notes, raised |-> FALSE]
    ELSE [notes |-> notes,
          returned |-> AdjustedNotes(SortedByStart(notes), Len(notes)),
          raised |-> FALSE]

\* rounding that sends an exact half away from zero
MutPyRoundHalfAway(n, d) ==
    LET num == IF d < 0 THEN -n ELSE n
        den == IF d < 0 THEN -d ELSE d
        q == num \div den
        r == num % den
    IN  IF 2 * r < den THEN q
        ELSE IF 2 * r > den THEN q + 1
        ELSE IF q >= 0 THEN q + 1 ELSE q

\* Python 3's round(n / d) for d # 0: to the nearest integer, an exact half to
\* the even neighbour
PyRound(n, d) ==
    LET num == IF d < 0 THEN -n ELSE n
        den == IF d < 0 THEN -d ELSE d
        q == num \div den      \* floor
        r == num % den
    IN  IF 2 * r < den THEN q
        ELSE IF 2 * r > den THEN q + 1
        ELSE IF q % 2 = 0 THEN q ELSE q + 1

QuantizedNote(note, resolution) ==
    LET quantized_start == PyRound(note.start_time, resolution) * resolution
        quantized_duration ==
            Max(resolution, PyRound(note.duration, resolution) * resolution)
    IN  TimingCopy(note, quantized_start, quantized_duration)

\* note.start_time / resolution raises ZeroDivisionError for resolution 0 as soon
\* as there is a note to quantize
quantize_timing(notes, resolution) ==
    IF notes # <<>> /\ resolution = 0
    THEN [notes |-> notes, returned |-> <<>>, raised |-> TRUE]
    ELSE [notes |-> notes,
          returned |-> [i \in 1..Len(notes) |-> QuantizedNote(notes[i], resolution)],
          raised |-> FALSE]

(***************************************************************************)
(* The timing specification: a caller normalises a note list, possibly     *)
(* several times                                                           *)
(***************************************************************************)
TimingStarts == {0, 25, 124, 200}
TimingDurations == {20, 125, 400}
TimingFlags ==
    { [pitch |-> 60, velocity |-> 64, staff_position |-> 0,
       accidental |-> NoAccidental, tie |-> FALSE, dot |-> FALSE],
      [pitch |-> 67, velocity |-> 90, staff_position |-> 7,
       accidental |-> "sharp", tie |-> TRUE, dot |-> TRUE] }

TimingNotes ==
    {Note(f.pitch, st, du, f.velocity, f.staff_position, f.accidental, f.tie, f.dot) :
        st \in TimingStarts, du \in TimingDurations, f \in TimingFlags}

Resolutions == {DEFAULT_RESOLUTION, 2 * DEFAULT_RESOLUTION, 0, -DEFAULT_RESOLUTION}

ClefIdle ==
    /\ inNotes = <<>> /\ argNotes = <<>> /\ curNotes = <<>> /\ outNotes = <<>>
    /\ ops = <<>> /\ ccp = CcpIdle /\ rr = NoResultCall /\ vc = NoValidation

InitTiming ==
    /\ tNotes \in SeqsUpTo(TimingNotes, MaxTimingNotes)
    /\ tArg = <<>> /\ tCur = <<>> /\ tOp = NoTimingOp /\ tErr = FALSE /\ tCount = 0
    /\ ClefIdle
    /\ PipeIdle
    /\ OmrIdle /\ WebIdle

CalculateTiming ==
    /\ tCount < MaxTimingOps /\ ~tErr
    /\ LET r == calculate_timing(tNotes) IN
        /\ tArg' = tNotes
        /\ tCur' = r.notes
        /\ tNotes' = r.returned
        /\ tErr' = r.raised
    /\ tOp' = [name |-> "calculate_timing", resolution |-> 0]
    /\ tCount' = tCount + 1
    /\ UNCHANGED clefVars /\ UNCHANGED pipeVars
    /\ UNCHANGED omrVars /\ UNCHANGED webVars

QuantizeTiming ==
    /\ tCount < MaxTimingOps /\ ~tErr
    /\ \E resolution \in Resolutions :
        LET r == quantize_timing(tNotes, resolution) IN
        /\ tArg' = tNotes
        /\ tCur' = r.notes
        /\ tNotes' = r.returned
        /\ tErr' = r.raised
        /\ tOp' = [name |-> "quantize_timing", resolution |-> resolution]
    /\ tCount' = tCount + 1
    /\ UNCHANGED clefVars /\ UNCHANGED pipeVars
    /\ UNCHANGED omrVars /\ UNCHANGED webVars

NextTiming ==
    \/ CalculateTiming
    \/ QuantizeTiming

SpecTiming == InitTiming /\ [][NextTiming]_vars

(***************************************************************************)
(* Claims about the timing normaliser                                      *)
(***************************************************************************)
Abs(x) == IF x < 0 THEN -x ELSE x

\* C8: for notes with durations > 0, calculate_timing returns the notes ordered
\* by start_time, and each note ends no later than the next one starts.
C8_NoOverlapAfterCalculateTiming ==
    (/\ tOp.name = "calculate_timing" /\ ~tErr
     /\ \A i \in 1..Len(tArg) : tArg[i].duration > 0) =>
        /\ Len(tNotes) = Len(tArg)
        /\ \A i \in 1..(Len(tNotes) - 1) :
              /\ tNotes[i].start_time <= tNotes[i + 1].start_time
              /\ end_time(tNotes[i]) <= tNotes[i + 1].start_time

\* A(start 0.0, duration 1.0) and B(start 0.5, duration 1.0)
C8_Witness ==
    /\ tOp.name = "calculate_timing" /\ Len(tArg) = 2
    /\ tArg[1].start_time = 200 /\ tArg[1].duration = 400
    /\ tArg[2].start_time = 0 /\ tArg[2].duration = 400
    /\ tNotes[1].start_time = 0 /\ end_time(tNotes[1]) <= tNotes[2].start_time

\* x is t rounded to a multiple of r, an exact half going to the even multiple
NearestEvenMultiple(x, t, r) ==
    \E k \in -(Abs(t) \div r + 1)..(Abs(t) \div r + 1) :
        /\ x = k * r
        /\ 2 * Abs(t - x) <= r
        /\ 2 * Abs(t - x) = r => k % 2 = 0

\* x is t rounded to a multiple of r, an exact half going away from zero
NearestAwayMultiple(x, t, r) ==
    \E k \in -(Abs(t) \div r + 1)..(Abs(t) \div r + 1) :
        /\ x = k * r
        /\ 2 * Abs(t - x) <= r
        /\ 2 * Abs(t - x) = r => Abs(x) > Abs(t)

\* C9 as amended: for resolution r > 0, quantize_timing sets each start_time to
\* the nearest multiple of r, an exact half going to the even multiple
\* (round-half-to-even), and each duration to the same rounding of the
\* duration, but never less than r.
C9_QuantizeHalfEven ==
    (tOp.name = "quantize_timing" /\ tOp.resolution > 0 /\ ~tErr) =>
        /\ Len(tNotes) = Len(tArg)
        /\ \A i \in 1..Len(tArg) :
              /\ NearestEvenMultiple(tNotes[i].start_time, tArg[i].start_time,
                                     tOp.resolution)
              /\ \E d \in 0..(tArg[i].duration + tOp.resolution) :
                    /\ NearestEvenMultiple(d, tArg[i].duration, tOp.resolution)
                    /\ tNotes[i].duration = Max(tOp.resolution, d)

\* start 0.31 at resolution 0.125 becomes 0.25; start 0.0625, exactly halfway
\* between 0 and 0.125, becomes 0
C9_Witness ==
    /\ tOp.name = "quantize_timing" /\ tOp.resolution = 50 /\ Len(tArg) = 2
    /\ tArg[1].start_time = 124 /\ tNotes[1].start_time = 100
    /\ tArg[2].start_time = 25 /\ tNotes[2].start_time = 0
    /\ tArg[2].duration = 125 /\ tNotes[2].duration = 100

\* C9 as stated: an exact half goes to the multiple farther from zero.
C9_QuantizeHalfAway ==
    (tOp.name = "quantize_timing" /\ tOp.resolution > 0 /\ ~tErr) =>
        /\ Len(tNotes) = Len(tArg)
        /\ \A i \in 1..Len(tArg) :
              /\ NearestAwayMultiple(tNotes[i].start_time, tArg[i].start_time,
                                     tOp.resolution)
              /\ \E d \in 0..(tArg[i].duration + tOp.resolution) :
                    /\ NearestAwayMultiple(d, tArg[i].duration, tOp.resolution)
                    /\ tNotes[i].duration = Max(tOp.resolution, d)

SameButTiming(a, b) ==
    /\ a.pitch = b.pitch /\ a.velocity = b.velocity
    /\ a.staff_position = b.staff_position /\ a.accidental = b.accidental
    /\ a.tie = b.tie /\ a.dot = b.dot

IndexPermutations(n) == {f \in [1..n -> 1..n] : \A i, j \in 1..n : f[i] = f[j] => i = j}

\* C10: every note returned by calculate_timing and by quantize_timing has the
\* pitch, velocity, staff_position, accidental, tie and dot of the input note it
\* was derived from (for quantize_timing the note at the same index, for
\* calculate_timing the notes in some order).
C10_TimingChangesOnlyTiming ==
    /\ (tOp.name = "quantize_timing" /\ ~tErr) =>
          /\ Len(tNotes) = Len(tArg)
          /\ \A i \in 1..Len(tArg) : SameButTiming(tNotes[i], tArg[i])
    /\ (tOp.name = "calculate_timing" /\ ~tErr) =>
          /\ Len(tNotes) = Len(tArg)
          /\ \E f \in IndexPermutations(Len(tArg)) :
                \A i \in 1..Len(tArg) : SameButTiming(tNotes[i], tArg[f[i]])

(***************************************************************************)
(* core/converter.py: ConversionProgress                                   *)
(***************************************************************************)
TOTAL_STEPS == 6

set_total_steps(p, total) ==
    [p EXCEPT !.total_steps = total, !.current_step = 0, !.started = TRUE]

add_callback(p, callback) == [p EXCEPT !.callbacks = Append(@, callback)]

\* lines 147-148: if progress_callback: self.progress.add_callback(...)
RegisterCallback(p, callback) ==
    IF callback # NoObserver THEN add_callback(p, callback) ELSE p

\* next_step before it notifies: lines 55-56
AdvanceStep(p, operation) ==
    [p EXCEPT !.current_step = @ + 1, !.current_operation = operation]

\* percentage is the exact fraction num/den
progress_data(p) ==
    [step |-> p.current_step,
     total |-> p.total_steps,
     operation |-> p.current_operation,
     percentage |-> IF p.total_steps > 0
                    THEN [num |-> p.current_step * 100, den |-> p.total_steps]
                    ELSE [num |-> 0, den |-> 1]]

(***************************************************************************)
(* Observers.  A caller's observer is a callable the caller passes as      *)
(* progress_callback; observer 2 raises whenever it is called.  A          *)
(* file_progress_callback is the closure convert_batch defines in its      *)
(* loop; the closures of one convert_batch call share that call's          *)
(* variables i, input_file, input_files and progress_callback (cells).     *)
(***************************************************************************)
UserObserver(id) == [kind |-> "user", id |-> id, nth |-> 0]
\* the closure that iteration nth of convert_batch call b defines
FileProgressCallback(b, nth) ==
    [kind |-> "file_progress_callback", id |-> b, nth |-> nth]
UserObservers == {UserObserver(1), UserObserver(2)}

UserRaises(observer) == observer = UserObserver(2)

\* lines 312-327, for the closure of convert_batch call number w.id
file_progress_callback(w, data, cs) ==
    LET c == cs[w.id] IN
    [observer |-> c.progress_callback,
     batch |-> w.id,
     file_index |-> c.i + 1,
     total_files |-> c.n,
     current_file |-> c.input_file,
     file_progress |-> data.percentage,
     total_progress |->
        [num |-> 100 * c.i * data.percentage.den + data.percentage.num,
         den |-> c.n * data.percentage.den],
     operation |-> data.operation]

CallbackRaises(callback, cs) ==
    IF callback.kind = "user" THEN UserRaises(callback)
    ELSE /\ cs[callback.id].progress_callback # NoObserver
         /\ UserRaises(cs[callback.id].progress_callback)

\* a notification loop that the first raising callback ends
MutNotifyStopsAtRaise(p, cs) ==
    LET raising == {k \in 1..Len(p.callbacks) : CallbackRaises(p.callbacks[k], cs)}
        last == IF raising = {} THEN Len(p.callbacks)
                ELSE CHOOSE k \in raising : \A j \in raising : k <= j
    IN  [k \in 1..last |->
            [callback |-> p.callbacks[k],
             step |-> progress_data(p).step,
             total |-> progress_data(p).total,
             operation |-> progress_data(p).operation,
             percentage |-> progress_data(p).percentage,
             raised |-> CallbackRaises(p.callbacks[k], cs)]]

\* _notify_callbacks, lines 63-81: one call per entry of the list, in order; an
\* exception of a callback is caught and logged
_notify_callbacks(p, cs) ==
    [k \in 1..Len(p.callbacks) |->
        [callback |-> p.callbacks[k],
         step |-> progress_data(p).step,
         total |-> progress_data(p).total,
         operation |-> progress_data(p).operation,
         percentage |-> progress_data(p).percentage,
         raised |-> CallbackRaises(p.callbacks[k], cs)]]

\* the calls the notified closures make to the observers of batch callers
RECURSIVE ForwardedCalls(_, _, _)
ForwardedCalls(p, cs, k) ==
    IF k = 0 THEN <<>>
    ELSE LET cb == p.callbacks[k]
             before == ForwardedCalls(p, cs, k - 1)
         IN  IF cb.kind = "file_progress_callback"
                /\ cs[cb.id].progress_callback # NoObserver
             THEN Append(before, file_progress_callback(cb, progress_data(p), cs))
             ELSE before

(***************************************************************************)
(* The input file and the two validation layers: validate_image_file of    *)
(* utils/file_utils.py, load_image of utils/image_utils.py, and            *)
(* validate_image / preprocess of core/image_preprocessor.py               *)
(***************************************************************************)
SUPPORTED_IMAGE_FORMATS == {".png", ".jpg", ".jpeg", ".bmp", ".tiff", ".tif", ".gif"}
PreprocessorFormats == {".png", ".jpg", ".jpeg", ".bmp", ".tiff", ".tif"}
MIN_IMAGE_SIDE == 100
MAX_IMAGE_SIDE == 65536

\* what the checks read of a file: whether it exists, its suffix, its size in
\* bytes, whether PIL can open it, and the pixel size PIL reports
File(exists, suffix, size, decodable, width, height) ==
    [exists |-> exists, suffix |-> suffix, size |-> size, decodable |-> decodable,
     width |-> width, height |-> height]

InputFiles ==
    { File(TRUE, ".png", 4096, TRUE, 800, 600),      \* a page of music
      File(FALSE, ".png", 0, FALSE, 0, 0),           \* no such file
      File(TRUE, ".txt", 4096, FALSE, 0, 0),         \* not an image suffix
      File(TRUE, ".png", 0, FALSE, 0, 0),            \* a zero-byte file
      File(TRUE, ".png", 512, TRUE, 50, 50),         \* a 50x50 image
      File(TRUE, ".png", 512, FALSE, 0, 0) }         \* bytes PIL cannot open

\* utils/file_utils.py, lines 29-74; mimetypes.guess_type gives image/* for
\* every suffix of SUPPORTED_IMAGE_FORMATS
validate_image_file(file) ==
    /\ file.exists
    /\ file.suffix \in SUPPORTED_IMAGE_FORMATS
    /\ file.size # 0

\* the two kinds of argument a function that expects a path is called with
PathOf(file) == [kind |-> "path", file |-> file]
ImageOf(file) == [kind |-> "image", file |-> file]
NoImage == [kind |-> "None"]

\* utils/image_utils.py, lines 16-32: the PIL image, or None
load_image(file) ==
    IF file.exists /\ file.decodable THEN ImageOf(file) ELSE NoImage

\* an image check that also takes an image object and reads its size
MutValidateImageAcceptsImages(image_path) ==
    /\ image_path.file.exists /\ image_path.file.decodable
    /\ ~(image_path.file.width < MIN_IMAGE_SIDE \/ image_path.file.height < MIN_IMAGE_SIDE)
    /\ ~(image_path.file.width > MAX_IMAGE_SIDE \/ image_path.file.height > MAX_IMAGE_SIDE)

\* core/image_preprocessor.py, lines 26-62: os.path.splitext(image_path) raises
\* TypeError for an argument that is not a path, and the handler returns False
validate_image(image_path) ==
    IF image_path.kind # "path" THEN FALSE
    ELSE /\ image_path.file.suffix \in PreprocessorFormats
         /\ image_path.file.exists /\ image_path.file.decodable
         /\ ~(image_path.file.width < MIN_IMAGE_SIDE \/ image_path.file.height < MIN_IMAGE_SIDE)
         /\ ~(image_path.file.width > MAX_IMAGE_SIDE \/ image_path.file.height > MAX_IMAGE_SIDE)

\* core/image_preprocessor.py, lines 309-345: the later stages of preprocess
\* catch their own errors
preprocess(image_path) ==
    IF ~validate_image(image_path)
    THEN [raised |-> TRUE, exc |-> "ValueError"]
    ELSE [raised |-> FALSE, exc |-> ""]

(***************************************************************************)
(* Results of the other stages.  The preprocessor, the recogniser and the  *)
(* renderer are objects the converter holds (image_preprocessor,           *)
(* omr_engine, score_renderer).  The preprocessor is either the            *)
(* ImagePreprocessor above or a substitute that returns or raises; the     *)
(* recogniser returns a result or raises.                                  *)
(***************************************************************************)
ExceptionClasses == {"ValueError", "RuntimeError", "TypeError"}

DetectedNotes ==
    { Note(64, 200, 200, DefaultVelocity, 4, NoAccidental, DefaultTie, DefaultDot),
      Note(55, 0, 200, DefaultVelocity, -5, NoAccidental, DefaultTie, DefaultDot) }

DetectedClefs == {"alto", "treble", "bass"}

\* recognize_basic, lines 349-358: ScoreMetadata(clef_type=...), confidence 0.6
\* (in hundredths)
RecognitionResults ==
    {RecognitionResult(ns, ScoreMetadata(<<4, 4>>, "C", 120, c, "", ""),
                       <<>>, 60, 0, "image", <<>>, <<>>) :
        ns \in SeqsUpTo(DetectedNotes, MaxDetected), c \in DetectedClefs}

\* the warning convert_recognition_result records
ConversionWarning(source_clef, target_clef) == <<"converted", source_clef, target_clef>>

\* a conversion that appends its warning to the list object of the argument
MutConvertedResultSharesWarnings(r, target_clef, converted_notes) ==
    [raised |-> FALSE, exc |-> "", same |-> FALSE,
     arg |-> add_warning(r, ConversionWarning(r.metadata.clef_type, target_clef)),
     result |->
        add_warning(
           RecognitionResult(converted_notes,
                             [r.metadata EXCEPT !.clef_type = target_clef],
                             r.measures, r.confidence, r.processing_time,
                             r.image_path, r.errors, r.warnings),
           ConversionWarning(r.metadata.clef_type, target_clef))]

\* core/clef_converter.py, lines 329-355: a new ScoreMetadata, a new
\* RecognitionResult with copies of errors and warnings, then add_warning
ConvertedResult(r, target_clef, converted_notes) ==
    [raised |-> FALSE, exc |-> "", same |-> FALSE, arg |-> r,
     result |->
        add_warning(
           RecognitionResult(converted_notes,
                             ScoreMetadata(r.metadata.time_signature,
                                           r.metadata.key_signature,
                                           r.metadata.tempo, target_clef,
                                           r.metadata.title, r.metadata.composer),
                             r.measures, r.confidence, r.processing_time,
                             r.image_path, r.errors, r.warnings),
           ConversionWarning(r.metadata.clef_type, target_clef))]

\* a conversion that returns the argument for every pair it has no table for
MutConvertRecognitionResultLenient(r, target_clef) ==
    IF r.metadata = NoMetadata
    THEN [raised |-> TRUE, exc |-> "ValueError", same |-> FALSE, arg |-> r,
          result |-> r]
    ELSE IF r.metadata.clef_type = "alto" /\ target_clef = "treble"
    THEN ConvertedResult(r, target_clef, convert_alto_to_treble(r.notes).converted_notes)
    ELSE IF r.metadata.clef_type = "treble" /\ target_clef = "alto"
    THEN ConvertedResult(r, target_clef, convert_treble_to_alto(r.notes).converted_notes)
    ELSE [raised |-> FALSE, exc |-> "", same |-> TRUE, arg |-> r, result |-> r]

\* core/clef_converter.py, lines 299-359: whether the call raised, the result it
\* returned, whether that is the argument object itself, and the argument
\* after the call
convert_recognition_result(r, target_clef) ==
    IF r.metadata = NoMetadata
    THEN [raised |-> TRUE, exc |-> "ValueError", same |-> FALSE, arg |-> r,
          result |-> r]
    ELSE IF r.metadata.clef_type = target_clef
    THEN [raised |-> FALSE, exc |-> "", same |-> TRUE, arg |-> r, result |-> r]
    ELSE IF r.metadata.clef_type = "alto" /\ target_clef = "treble"
    THEN ConvertedResult(r, target_clef, convert_alto_to_treble(r.notes).converted_notes)
    ELSE IF r.metadata.clef_type = "treble" /\ target_clef = "alto"
    THEN ConvertedResult(r, target_clef, convert_treble_to_alto(r.notes).converted_notes)
    ELSE [raised |-> TRUE, exc |-> "ValueError", same |-> FALSE, arg |-> r,
          result |-> r]

\* utils/file_utils.py
SUPPORTED_OUTPUT_FORMATS == {"png", "pdf", "midi", "mid", "svg"}
validate_output_format(format_str) == format_str \in SUPPORTED_OUTPUT_FORMATS

FormatLists == {<<"xyz", "png">>, <<"pdf">>, <<"midi">>}

\* core/score_renderer.py, lines 96-134: only png is written, and only when
\* render_score returned an image; never raises
render_score_to_file(output_format, rendered) ==
    IF ~rendered THEN FALSE
    ELSE IF output_format \in {"png", "jpg", "jpeg"} THEN TRUE
    ELSE FALSE

\* the loop of step 5, lines 195-226, over formats[1..k]: the formats written so
\* far, or the exception that ended the loop.  notes_to_midi is declared as
\* (notes, metadata) and called with (notes, path, metadata=...): TypeError
RECURSIVE GenerateOutputs(_, _, _)
GenerateOutputs(formats, k, rendered) ==
    IF k = 0 THEN [raised |-> FALSE, exc |-> "", output_files |-> {}]
    ELSE LET before == GenerateOutputs(formats, k - 1, rendered)
             f == formats[k]
         IN  IF before.raised THEN before
             ELSE IF ~validate_output_format(f) THEN before
             ELSE IF f \in {"png", "pdf", "svg"}
             THEN IF render_score_to_file(f, rendered)
                  THEN [before EXCEPT !.output_files = @ \cup {f}]
                  ELSE before
             ELSE IF f \in {"midi", "mid"}
             THEN [raised |-> TRUE, exc |-> "TypeError", output_files |-> {}]
             ELSE before

\* an exception handler that lets everything but ValueError through
MutFailureResultOnlyValueError(exc, input_path) ==
    IF exc = "ValueError"
    THEN [outcome |-> "returned", success |-> FALSE, error |-> exc,
          input_file |-> input_path, output_files |-> {},
          processing_time |-> "elapsed"]
    ELSE [outcome |-> "raised", error |-> exc]

\* except Exception as e: lines 244-259
FailureResult(exc, input_path) ==
    IF exc \in ExceptionClasses
    THEN [outcome |-> "returned", success |-> FALSE, error |-> exc,
          input_file |-> input_path, output_files |-> {},
          processing_time |-> "elapsed"]
    ELSE [outcome |-> "raised", error |-> exc]

\* lines 231-239
SuccessResult(r) ==
    [outcome |-> "returned", success |-> TRUE, input_file |-> r.input_path,
     output_files |-> r.output_files, recognition_result |-> r.recognition_result,
     converted_result |-> r.converted_result, processing_time |-> "elapsed",
     notes_count |-> Len(r.converted_result.notes)]

(***************************************************************************)
(* core/converter.py: convert_single, one action per step                  *)
(***************************************************************************)
\* lines 143-153: register the observer, set_total_steps(6)
EnterConvertSingle(input_path, file, formats, progress_callback) ==
    /\ progress' = set_total_steps(RegisterCallback(progress, progress_callback),
                                   TOTAL_STEPS)
    /\ run' = [NoRun EXCEPT !.input_path = input_path, !.file = file,
                            !.formats = formats,
                            !.progress_callback = progress_callback]
    /\ result' = NoResult
    /\ events' = <<>>
    /\ pc' = "step1"
    /\ calls' = calls + 1

\* self.progress.next_step(operation): advance, then notify every callback
Announce(operation) ==
    LET p == AdvanceStep(progress, operation) IN
    /\ progress' = p
    /\ events' = events \o _notify_callbacks(p, cells)
    /\ overall' = overall \o ForwardedCalls(p, cells, Len(p.callbacks))

\* an exception leaves the try block: the handler builds what is returned
FailIn(exc, r) ==
    /\ result' = FailureResult(exc, r.input_path)
    /\ pc' = "returned"
    /\ run' = r

Fail(exc) == FailIn(exc, run)

Proceed(next) == pc' = next /\ result' = result

\* a caller outside convert_batch calls convert_single
ConvertSingle ==
    /\ pc \in {"idle", "returned"} /\ ~batch.active /\ calls < MaxRuns
    /\ \E cb \in UserObservers \cup {NoObserver}, formats \in FormatLists,
          file \in InputFiles :
          EnterConvertSingle(1, file, formats, cb)
    /\ overall' = <<>>
    /\ batch' = NoBatch
    /\ UNCHANGED cells
    /\ UNCHANGED clefVars /\ UNCHANGED timingVars
    /\ UNCHANGED omrVars /\ UNCHANGED webVars

\* step 1, lines 155-158
Step1Validate ==
    /\ pc = "step1"
    /\ Announce("validate")
    /\ IF validate_image_file(run.file)
       THEN Proceed("step2") /\ run' = run
       ELSE Fail("ValueError")
    /\ UNCHANGED <<batch, cells, calls>>
    /\ UNCHANGED clefVars /\ UNCHANGED timingVars
    /\ UNCHANGED omrVars /\ UNCHANGED webVars

\* step 2, lines 160-168
Step2Preprocess ==
    /\ pc = "step2"
    /\ Announce("preprocess")
    /\ LET image == load_image(run.file) IN
       IF image = NoImage
       THEN Fail("ValueError")
       ELSE \/ LET p == preprocess(image)             \* the ImagePreprocessor
                   r == [run EXCEPT !.preprocessor = "ImagePreprocessor"]
               IN  IF p.raised
                   THEN FailIn(p.exc, r)
                   ELSE Proceed("step3") /\ run' = r
            \/ \E returns \in BOOLEAN :                \* a substitute
                  LET r == [run EXCEPT !.preprocessor = "substitute"] IN
                  IF returns
                  THEN Proceed("step3") /\ run' = r
                  ELSE FailIn("ValueError", r)
    /\ UNCHANGED <<batch, cells, calls>>
    /\ UNCHANGED clefVars /\ UNCHANGED timingVars
    /\ UNCHANGED omrVars /\ UNCHANGED webVars

\* step 3, lines 170-175
Step3Recognize ==
    /\ pc = "step3"
    /\ Announce("recognize")
    /\ \/ \E r \in RecognitionResults :
             IF r.notes = <<>>
             THEN Fail("ValueError")
             ELSE Proceed("step4") /\ run' = [run EXCEPT !.recognition_result = r]
       \/ Fail("RuntimeError")                         \* the engine could not be initialised
    /\ UNCHANGED <<batch, cells, calls>>
    /\ UNCHANGED clefVars /\ UNCHANGED timingVars
    /\ UNCHANGED omrVars /\ UNCHANGED webVars

\* step 4, lines 177-189
Step4Convert ==
    /\ pc = "step4"
    /\ Announce("convert")
    /\ IF run.recognition_result.metadata.clef_type = "alto"
       THEN LET c == convert_recognition_result(run.recognition_result, "treble") IN
            IF c.raised
            THEN Fail("ValueError")
            ELSE Proceed("step5") /\ run' = [run EXCEPT !.converted_result = c.result]
       ELSE Proceed("step5")
            /\ run' = [run EXCEPT !.converted_result = run.recognition_result]
    /\ UNCHANGED <<batch, cells, calls>>
    /\ UNCHANGED clefVars /\ UNCHANGED timingVars
    /\ UNCHANGED omrVars /\ UNCHANGED webVars

\* step 5, lines 191-226; rendered: whether render_score produced an image
Step5Output ==
    /\ pc = "step5"
    /\ Announce("output")
    /\ \E rendered \in BOOLEAN :
          LET g == GenerateOutputs(run.formats, Len(run.formats), rendered) IN
          IF g.raised
          THEN Fail(g.exc)
          ELSE Proceed("step6") /\ run' = [run EXCEPT !.output_files = g.output_files]
    /\ UNCHANGED <<batch, cells, calls>>
    /\ UNCHANGED clefVars /\ UNCHANGED timingVars
    /\ UNCHANGED omrVars /\ UNCHANGED webVars

\* step 6, lines 228-242
Step6Complete ==
    /\ pc = "step6"
    /\ Announce("complete")
    /\ result' = SuccessResult(run)
    /\ pc' = "returned"
    /\ UNCHANGED <<run, batch, cells, calls>>
    /\ UNCHANGED clefVars /\ UNCHANGED timingVars
    /\ UNCHANGED omrVars /\ UNCHANGED webVars

(***************************************************************************)
(* core/converter.py: convert_batch, one action per loop iteration         *)
(***************************************************************************)
BatchFailure ==
    [active |-> FALSE, outcome |-> "returned", success |-> FALSE,
     error |-> "ValueError", total_files |-> 0, successful_count |-> 0,
     failed_count |-> 0, results |-> <<>>, total_notes |-> 0]

\* a total that counts the successful entries instead of their notes
RECURSIVE MutTotalNotesCountsEntries(_, _)
MutTotalNotesCountsEntries(results, k) ==
    IF k = 0 THEN 0
    ELSE MutTotalNotesCountsEntries(results, k - 1)
         + (IF results[k].success THEN 1 ELSE 0)

\* sum(r.get("notes_count", 0) for r in results if r["success"])
RECURSIVE TotalNotes(_, _)
TotalNotes(results, k) ==
    IF k = 0 THEN 0
    ELSE TotalNotes(results, k - 1)
         + (IF results[k].success THEN results[k].notes_count ELSE 0)

\* the nth input file of convert_batch call b: every call has its own files
BatchFile(b, nth) == <<b, nth>>

\* lines 280-306: the input files are found (n of them, numbered 1..n); no
\* file at all is an error the handler of convert_batch turns into a result
ConvertBatch ==
    /\ pc \in {"idle", "returned"} /\ ~batch.active
    /\ \E n \in 0..MaxFiles, cb \in UserObservers \cup {NoObserver},
          formats \in FormatLists :
          /\ calls + n <= MaxRuns
          /\ IF n = 0
             THEN /\ batch' = BatchFailure
                  /\ cells' = cells
             ELSE /\ batch' = [active |-> TRUE, outcome |-> "none",
                               id |-> Len(cells) + 1, n |-> n, i |-> 0,
                               formats |-> formats, progress_callback |-> cb,
                               results |-> <<>>, successful_count |-> 0,
                               failed_count |-> 0]
                  /\ cells' = Append(cells, [i |-> 0, input_file |-> BatchFile(0, 0), n |-> n,
                                            progress_callback |-> cb])
    /\ pc' = "idle"
    /\ overall' = <<>> /\ events' = <<>> /\ run' = NoRun /\ result' = NoResult
    /\ UNCHANGED <<progress, calls>>
    /\ UNCHANGED clefVars /\ UNCHANGED timingVars
    /\ UNCHANGED omrVars /\ UNCHANGED webVars

\* lines 308-332: the loop variables are bound, the closure is defined and
\* convert_single is entered with it
BatchConvertFile ==
    /\ batch.active /\ pc = "idle" /\ batch.i < batch.n
    /\ cells' = [cells EXCEPT ![batch.id].i = batch.i,
                              ![batch.id].input_file = BatchFile(batch.id, batch.i + 1)]
    /\ \E file \in {f \in InputFiles : validate_image_file(f)} :
          EnterConvertSingle(batch.i + 1, file, batch.formats,
                             FileProgressCallback(batch.id, batch.i + 1))
    /\ UNCHANGED <<overall, batch>>
    /\ UNCHANGED clefVars /\ UNCHANGED timingVars
    /\ UNCHANGED omrVars /\ UNCHANGED webVars

\* what convert_batch reads of a result: r["success"], r.get("notes_count", 0)
ResultRead(r) ==
    [success |-> r.success, input_file |-> r.input_file,
     notes_count |-> IF "notes_count" \in DOMAIN r THEN r.notes_count ELSE 0]

\* lines 334-340: convert_single returned
BatchCollect ==
    /\ batch.active /\ pc = "returned" /\ result.outcome = "returned"
    /\ batch' = [batch EXCEPT
                    !.results = Append(@, ResultRead(result)),
                    !.successful_count = IF result.success THEN @ + 1 ELSE @,
                    !.failed_count = IF result.success THEN @ ELSE @ + 1,
                    !.i = @ + 1]
    /\ pc' = "idle"
    /\ UNCHANGED <<progress, run, result, events, overall, cells, calls>>
    /\ UNCHANGED clefVars /\ UNCHANGED timingVars
    /\ UNCHANGED omrVars /\ UNCHANGED webVars

\* lines 342-362: the loop is over
BatchReturn ==
    /\ batch.active /\ pc = "idle" /\ batch.i = batch.n
    /\ batch' = [active |-> FALSE, outcome |-> "returned",
                 success |-> batch.successful_count > 0,
                 total_files |-> batch.n,
                 successful_count |-> batch.successful_count,
                 failed_count |-> batch.failed_count,
                 results |-> batch.results,
                 total_notes |-> TotalNotes(batch.results, Len(batch.results))]
    /\ UNCHANGED <<progress, pc, run, result, events, overall, cells, calls>>
    /\ UNCHANGED clefVars /\ UNCHANGED timingVars
    /\ UNCHANGED omrVars /\ UNCHANGED webVars

InitPipeline ==
    /\ PipeIdle
    /\ ClefIdle
    /\ TimingIdle
    /\ OmrIdle /\ WebIdle

NextPipeline ==
    \/ ConvertSingle
    \/ Step1Validate
    \/ Step2Preprocess
    \/ Step3Recognize
    \/ Step4Convert
    \/ Step5Output
    \/ Step6Complete
    \/ ConvertBatch
    \/ BatchConvertFile
    \/ BatchCollect
    \/ BatchReturn

SpecPipeline == InitPipeline /\ [][NextPipeline]_vars


(***************************************************************************)
(* Properties of the pipeline                                              *)
(***************************************************************************)
\* the operations convert_single announces, in the order of its code
StepNames == <<"validate", "preprocess", "recognize", "convert", "output", "complete">>

\* the events of the current run that were delivered to one registered callback
EventsOf(callback) == SelectSeq(events, LAMBDA e : e.callback = callback)

\* C4: in a convert_single run in which every stage succeeds each registered
\* observer receives exactly six events with step 1..6 in order, total 6 and
\* percentage step/6*100 (100 only at step 6); in every run current_step starts
\* at 0, is one less than the number of the step about to be entered and never
\* exceeds 6.
C4_SixEventsPerObserver ==
    /\ progress.current_step \in 0..TOTAL_STEPS
    /\ \A k \in 1..TOTAL_STEPS :
          pc = "step" \o ToString(k) => progress.current_step = k - 1
    /\ (pc = "returned" /\ result.outcome = "returned" /\ result.success) =>
          \A c \in 1..Len(progress.callbacks) :
             LET es == EventsOf(progress.callbacks[c]) IN
             /\ Len(es) = TOTAL_STEPS
             /\ \A s \in 1..Len(es) :
                   /\ es[s].step = s
                   /\ es[s].total = TOTAL_STEPS
                   /\ es[s].percentage.num * TOTAL_STEPS
                         = s * 100 * es[s].percentage.den
                   /\ (es[s].percentage.num = 100 * es[s].percentage.den)
                         <=> (s = TOTAL_STEPS)

\* C5: convert_single never raises to its caller; when it has returned, it
\* returned success after the sixth (complete) transition, or a failure record
\* with success = false, error, input_file and processing_time after the
\* transition of the failing step, which is the last one announced: the step
\* counter is the number of that step and every step before it was announced
\* exactly once, in order.
C5_ConvertSingleAlwaysReturns ==
    /\ result.outcome \in {"none", "returned"}
    /\ pc = "returned" =>
          /\ result.outcome = "returned"
          /\ progress.current_step \in 1..TOTAL_STEPS
          /\ progress.current_operation = StepNames[progress.current_step]
          /\ result.success <=> progress.current_step = TOTAL_STEPS
          /\ Len(events) = Len(progress.callbacks) * progress.current_step
          /\ \A e \in 1..Len(events) : events[e].operation = StepNames[events[e].step]
          /\ \A e \in 1..(Len(events) - 1) : events[e].step <= events[e + 1].step
          /\ ~result.success =>
                /\ {"success", "error", "input_file", "processing_time"}
                      \subseteq DOMAIN result
                /\ result.error \in ExceptionClasses
                /\ result.input_file = run.input_path

\* a run with a registered observer that failed at the output step has
\* returned its failure record
C5_Witness ==
    /\ pc = "returned" /\ result.outcome = "returned" /\ ~result.success
    /\ result.error = "TypeError" /\ progress.current_step = 5
    /\ Len(events) > 0

\* the notes of the successful entries, added from the head of the list
RECURSIVE SumOverSuccesses(_)
SumOverSuccesses(results) ==
    IF results = <<>> THEN 0
    ELSE (IF Head(results).success THEN Head(results).notes_count ELSE 0)
         + SumOverSuccesses(Tail(results))

\* C6: a batch over N >= 1 files returns N results, the i-th for the i-th file,
\* whatever failed before; successful_count + failed_count = N = total_files,
\* successful_count is the number of successful entries and total_notes the sum
\* of notes_count over the successful entries.
C6_BatchAggregation ==
    /\ batch.active =>
          /\ Len(batch.results) = batch.i
          /\ \A i \in 1..Len(batch.results) : batch.results[i].input_file = i
    /\ (batch.outcome = "returned" /\ batch.total_files >= 1) =>
          /\ Len(batch.results) = batch.total_files
          /\ \A i \in 1..Len(batch.results) : batch.results[i].input_file = i
          /\ batch.successful_count + batch.failed_count = batch.total_files
          /\ batch.successful_count
                = Cardinality({i \in 1..Len(batch.results) : batch.results[i].success})
          /\ batch.total_notes = SumOverSuccesses(batch.results)

\* a batch of two files returned after its first file failed and its second
\* file was converted with two notes
C6_Witness ==
    /\ batch.outcome = "returned" /\ batch.total_files = 2
    /\ ~batch.results[1].success
    /\ batch.results[2].success /\ batch.results[2].notes_count = 2

\* what identifies one step transition of one file in a call the batch closure
\* forwards to the caller's observer
ForwardKey(call) == <<call.batch, call.file_index, call.operation>>

\* C7: the progress state is reset when a run begins: current_step is 0 and the
\* callback list holds only the callback registered for that run, so every
\* event of the run goes to that callback, and in a batch the caller's observer
\* is invoked once per step transition of each file.
C7_ProgressResetPerRun ==
    /\ pc = "step1" =>
          /\ progress.current_step = 0
          /\ progress.callbacks = IF run.progress_callback = NoObserver
                                  THEN <<>>
                                  ELSE <<run.progress_callback>>
    /\ \A e \in 1..Len(events) : events[e].callback = run.progress_callback
    /\ \A a, b \in 1..Len(overall) :
          ForwardKey(overall[a]) = ForwardKey(overall[b]) => a = b

\* C11: calculate_timing and quantize_timing never raise, whatever the list and
\* the resolution (positive, zero or negative), return a list as long as their
\* argument, and leave the argument list and its notes as they were.
C11_TimingTotalAndPure ==
    tOp.name # NoTimingOp.name =>
        /\ ~tErr
        /\ Len(tNotes) = Len(tArg)
        /\ tCur = tArg

(***************************************************************************)
(* core/clef_converter.py: validate_conversion.  The times of the notes    *)
(* handed to validate_conversion below are in milliseconds, so that the    *)
(* tolerance of 0.001 s is one unit.                                       *)
(***************************************************************************)
TIME_TOLERANCE == 1

\* an element of a list that is not a Note (None): reading .pitch of it raises
NotANote == [none |-> TRUE]
IsNote(x) == "pitch" \in DOMAIN x

\* a comparison that rejects a difference of exactly the tolerance
MutNoteAgreesStrict(orig, conv) ==
    IF ~IsNote(orig) \/ ~IsNote(conv) THEN FALSE
    ELSE /\ orig.pitch = conv.pitch
         /\ orig.start_time = conv.start_time
         /\ orig.duration = conv.duration

\* lines 377-391: the three checks of one pair; an AttributeError is caught by
\* the handler of validate_conversion, which returns False
NoteAgrees(orig, conv) ==
    IF ~IsNote(orig) \/ ~IsNote(conv) THEN FALSE
    ELSE /\ ~(orig.pitch # conv.pitch)
         /\ ~(Abs(orig.start_time - conv.start_time) > TIME_TOLERANCE)
         /\ ~(Abs(orig.duration - conv.duration) > TIME_TOLERANCE)

\* lines 361-397
validate_conversion(original, converted) ==
    IF Len(original) # Len(converted) THEN FALSE
    ELSE \A i \in 1..Len(original) : NoteAgrees(original[i], converted[i])

(***************************************************************************)
(* The result specification: a caller converts a recognition result,       *)
(* possibly the converted result again, or validates a conversion          *)
(***************************************************************************)
MaxResultOps == 2     \* calls of convert_recognition_result in a row
MaxValidated == 2     \* notes of a list handed to validate_conversion

ResultNotes ==
    { <<>>,
      <<Note(60, 0, 200, DefaultVelocity, 4, NoAccidental, DefaultTie, DefaultDot)>>,
      <<Note(72, 200, 200, 90, 20, "sharp", TRUE, TRUE),
        Note(60, 0, 200, DefaultVelocity, -10, NoAccidental, DefaultTie, DefaultDot)>> }

ResultMetadata ==
    {NoMetadata} \cup
    {ScoreMetadata(ts, "G", 90, c, "Sonata", "Anon") :
        ts \in {<<4, 4>>, <<3, 4>>}, c \in ClefTags}

ResultInputs ==
    {RecognitionResult(ns, md, <<"measure">>, 60, 3, "page.png", es, ws) :
        ns \in ResultNotes, md \in ResultMetadata,
        es \in {<<>>, <<"blurred">>}, ws \in {<<>>, <<"rotation skipped">>}}

ValidationOriginals ==
    {Note(60, 100, 500, DefaultVelocity, 4, NoAccidental, DefaultTie, DefaultDot),
     NotANote}

ValidationConverted ==
    {Note(p, st, du, DefaultVelocity, pos, NoAccidental, DefaultTie, DefaultDot) :
        p \in {60, 61}, st \in {100, 101, 98}, du \in {500, 499, 502}, pos \in {-2}}
    \cup {Note(60, 100, 500, DefaultVelocity, 4, NoAccidental, DefaultTie, DefaultDot),
          NotANote}

InitResult ==
    /\ ClefIdle
    /\ TimingIdle
    /\ PipeIdle
    /\ OmrIdle /\ WebIdle

\* convert_recognition_result(r, target): r is a result of the recogniser, or
\* what the previous call returned
ConvertRecognitionResult ==
    /\ ~vc.called /\ rr.count < MaxResultOps /\ ~rr.raised
    /\ \E r \in (IF rr.called THEN {rr.returned} ELSE ResultInputs),
          target \in ClefTags \cup {"percussion"} :
          LET c == convert_recognition_result(r, target) IN
          rr' = [called |-> TRUE, count |-> rr.count + 1, arg |-> r,
                 target |-> target, cur |-> c.arg, raised |-> c.raised,
                 exc |-> c.exc, same |-> c.same, returned |-> c.result]
    /\ UNCHANGED <<inNotes, argNotes, curNotes, outNotes, ops, ccp, vc>>
    /\ UNCHANGED timingVars /\ UNCHANGED pipeVars
    /\ UNCHANGED omrVars /\ UNCHANGED webVars

ValidateConversion ==
    /\ ~vc.called /\ ~rr.called
    /\ \E original \in SeqsUpTo(ValidationOriginals, MaxValidated),
          converted \in SeqsUpTo(ValidationConverted, MaxValidated) :
          vc' = [called |-> TRUE, original |-> original, converted |-> converted,
                 returned |-> validate_conversion(original, converted)]
    /\ UNCHANGED <<inNotes, argNotes, curNotes, outNotes, ops, ccp, rr>>
    /\ UNCHANGED timingVars /\ UNCHANGED pipeVars
    /\ UNCHANGED omrVars /\ UNCHANGED webVars

NextResult ==
    \/ ConvertRecognitionResult
    \/ ValidateConversion

SpecResult == InitResult /\ [][NextResult]_vars

(***************************************************************************)
(* Claims about convert_recognition_result and validate_conversion         *)
(***************************************************************************)
SupportedPairs == {<<"alto", "treble">>, <<"treble", "alto">>}

\* C12: for a result that has metadata, alto->treble and treble->alto always
\* succeed, and every other pair of different clefs ends in the
\* unsupported-conversion error (ValueError), never in a returned result; the
\* call raises for no other pair.
C12_UnsupportedPairsRaise ==
    (rr.called /\ rr.arg.metadata # NoMetadata) =>
        LET pair == <<rr.arg.metadata.clef_type, rr.target>> IN
        /\ pair \in SupportedPairs =>
              ~rr.raised /\ rr.returned.metadata.clef_type = rr.target
        /\ (pair[1] # pair[2] /\ pair \notin SupportedPairs) =>
              rr.raised /\ rr.exc = "ValueError"
        /\ rr.raised => (pair[1] # pair[2] /\ pair \notin SupportedPairs)

\* alto -> bass was requested for a result with two notes and raised
C12_Witness ==
    /\ rr.called /\ rr.raised /\ rr.exc = "ValueError"
    /\ rr.arg.metadata # NoMetadata
    /\ rr.arg.metadata.clef_type = "alto" /\ rr.target = "bass"
    /\ Len(rr.arg.notes) = 2

\* C13: a conversion to a supported target different from the source returns a
\* new result: metadata with clef_type = target and the other five fields of
\* the original, the original warnings followed by exactly one source->target
\* warning, the original measures, confidence and errors; the original result
\* is as it was.  With target = source the argument itself is returned and no
\* warning is added.
C13_ConvertedResultFrame ==
    (rr.called /\ ~rr.raised) =>
        LET source == rr.arg.metadata.clef_type IN
        /\ rr.cur = rr.arg
        /\ rr.same <=> (source = rr.target)
        /\ rr.same => rr.returned = rr.arg
        /\ ~rr.same =>
              /\ rr.returned.metadata.clef_type = rr.target
              /\ \A f \in {"time_signature", "key_signature", "tempo", "title",
                           "composer"} :
                    rr.returned.metadata[f] = rr.arg.metadata[f]
              /\ rr.returned.warnings
                    = Append(rr.arg.warnings, ConversionWarning(source, rr.target))
              /\ rr.returned.measures = rr.arg.measures
              /\ rr.returned.confidence = rr.arg.confidence
              /\ rr.returned.errors = rr.arg.errors
              /\ Len(rr.returned.notes) = Len(rr.arg.notes)

\* a result with a warning and an error was converted from alto to treble, and
\* the converted result back to alto
C13_Witness ==
    /\ rr.called /\ ~rr.raised /\ ~rr.same /\ rr.count = 2
    /\ rr.arg.metadata.clef_type = "treble" /\ rr.target = "alto"
    /\ Len(rr.arg.warnings) = 2 /\ Len(rr.returned.warnings) = 3
    /\ rr.arg.errors # <<>> /\ rr.arg.metadata.time_signature = <<3, 4>>
    /\ rr.arg.notes # <<>>

\* C14: validate_conversion returns true exactly when the lists have the same
\* length and at every index the pitches are equal and start_time and duration
\* each differ by at most 0.001 s; staff_position is not compared; an internal
\* error gives false.
C14_ValidateConversion ==
    vc.called =>
        /\ vc.returned \in BOOLEAN
        /\ vc.returned <=>
              /\ Len(vc.original) = Len(vc.converted)
              /\ \A i \in 1..Len(vc.original) :
                    /\ IsNote(vc.original[i]) /\ IsNote(vc.converted[i])
                    /\ vc.original[i].pitch = vc.converted[i].pitch
                    /\ vc.converted[i].start_time \in
                          (vc.original[i].start_time - TIME_TOLERANCE)
                          ..(vc.original[i].start_time + TIME_TOLERANCE)
                    /\ vc.converted[i].duration \in
                          (vc.original[i].duration - TIME_TOLERANCE)
                          ..(vc.original[i].duration + TIME_TOLERANCE)

\* two pairs were accepted: one whose start and duration are each 0.001 s off
\* and whose staff_position differs, one that is identical
C14_Witness ==
    /\ vc.called /\ vc.returned /\ Len(vc.original) = 2
    /\ vc.converted[1].start_time = vc.original[1].start_time + TIME_TOLERANCE
    /\ vc.converted[1].duration = vc.original[1].duration - TIME_TOLERANCE
    /\ vc.converted[1].staff_position # vc.original[1].staff_position
    /\ vc.converted[2] = vc.original[2]

(***************************************************************************)
(* Claims about the input boundary                                         *)
(***************************************************************************)
SidesInRange(file) ==
    /\ file.width \in MIN_IMAGE_SIDE..MAX_IMAGE_SIDE
    /\ file.height \in MIN_IMAGE_SIDE..MAX_IMAGE_SIDE

\* the input boundary: an existing file with an image suffix, not empty,
\* decodable, with both sides in [100, 65536]
InBoundary(file) ==
    /\ file.exists /\ file.suffix \in SUPPORTED_IMAGE_FORMATS /\ file.size # 0
    /\ file.decodable /\ SidesInRange(file)

\* a missing file, an unsupported suffix, a zero-byte file, or an image with a
\* side outside [100, 65536]
ViolatesBoundary(file) ==
    \/ ~file.exists
    \/ file.suffix \notin SUPPORTED_IMAGE_FORMATS
    \/ file.size = 0
    \/ file.decodable /\ ~SidesInRange(file)

\* C15: a run on an input that violates the input boundary ends in a failure
\* result at step 1: step 2 (preprocess) is not entered, and step 3 and the
\* recogniser are never reached.
C15_RejectedBeforeProcessing ==
    (pc # "idle" /\ ViolatesBoundary(run.file)) =>
        /\ pc \in {"step1", "returned"}
        /\ progress.current_step <= 1
        /\ pc = "returned" => (result.outcome = "returned" /\ ~result.success)

\* C16: a run with the ImagePreprocessor on a file inside the input boundary
\* passes both validation layers: it does not end at step 1 or step 2.
C16_AcceptedInsideBoundary ==
    (/\ pc = "returned" /\ InBoundary(run.file)
     /\ run.preprocessor \in {"none", "ImagePreprocessor"}) =>
        progress.current_step >= 3

(***************************************************************************)
(* Claims about the notes the pipeline hands on                            *)
(***************************************************************************)
\* the formats convert_single sends to the score renderer (line 207)
RendererFormats == {"png", "pdf", "svg"}

\* step 5 of the current run has run and called render_score_to_file
RendererCalled ==
    /\ pc \in {"step6", "returned"} /\ progress.current_step >= 5
    /\ \E k \in 1..Len(run.formats) :
          /\ validate_output_format(run.formats[k])
          /\ run.formats[k] \in RendererFormats
          /\ ~GenerateOutputs(run.formats, k - 1, TRUE).raised

\* C17: the notes convert_single hands to the score renderer are in
\* non-decreasing order of start_time.
C17_RendererGetsSortedNotes ==
    RendererCalled =>
        \A i \in 1..(Len(run.converted_result.notes) - 1) :
            run.converted_result.notes[i].start_time
                <= run.converted_result.notes[i + 1].start_time

ValidTiming(note) ==
    /\ note.start_time >= 0 /\ note.duration > 0
    /\ note.start_time < end_time(note)

AllValidTiming(notes) == \A i \in 1..Len(notes) : ValidTiming(notes[i])

\* the latest call was calculate_timing, or quantize_timing with resolution > 0
NormalisingCall(op) ==
    \/ op.name = "calculate_timing"
    \/ op.name = "quantize_timing" /\ op.resolution > 0

\* C18: every note of the detector has start_time >= 0 and duration > 0, and a
\* list of such notes is again such a list after calculate_timing, after
\* quantize_timing with resolution > 0, and after either transposition of the
\* result, whatever was applied before.
C18_ValidTimingPreserved ==
    [][ /\ \A note \in DetectedNotes : ValidTiming(note)
        /\ (AllValidTiming(tNotes) /\ NormalisingCall(tOp') /\ ~tErr') =>
              /\ AllValidTiming(tNotes')
              /\ AllValidTiming(convert_alto_to_treble(tNotes').converted_notes)
              /\ AllValidTiming(convert_treble_to_alto(tNotes').converted_notes) ]_vars

\* two notes with the same start went through calculate_timing, which pushed
\* the second and gave the first the minimum duration, and then through
\* quantize_timing
C18_Witness ==
    /\ tCount = 2 /\ tOp.name = "quantize_timing" /\ tOp.resolution > 0 /\ ~tErr
    /\ Len(tArg) = 2 /\ tArg[1].duration = MIN_DURATION
    /\ tArg[2].start_time = MIN_DURATION
    /\ AllValidTiming(tNotes)

\* C26: calculate_timing only shortens: every note it returns has a duration
\* no longer than the input note it was made from (the notes are taken in
\* order of start_time), also when the gap to the next note is zero or
\* negative.
C26_DurationsOnlyShrink ==
    (tOp.name = "calculate_timing" /\ ~tErr) =>
        /\ Len(tNotes) = Len(tArg)
        /\ \A i \in 1..Len(tNotes) :
              tNotes[i].duration <= SortedByStart(tArg)[i].duration

(***************************************************************************)
(* Claims about the observers                                              *)
(***************************************************************************)
\* C19: an observer that raises does not abort the run: at every step every
\* registered callback is notified, in the order of the list, whether or not
\* an earlier one raised; the step counter and the operation are those of the
\* step, and a failure result carries the exception of a stage, never one of
\* an observer.
C19_ObserverFailureIsContained ==
    pc # "idle" =>
        LET n == Len(progress.callbacks) IN
        /\ Len(events) = n * progress.current_step
        /\ \A s \in 1..progress.current_step, k \in 1..n :
              LET e == events[(s - 1) * n + k] IN
              /\ e.callback = progress.callbacks[k]
              /\ e.step = s /\ e.operation = StepNames[s]
              /\ e.raised = CallbackRaises(progress.callbacks[k], cells)
        /\ progress.current_step > 0 =>
              progress.current_operation = StepNames[progress.current_step]
        /\ \A k \in 1..TOTAL_STEPS :
              pc = "step" \o ToString(k) => progress.current_step = k - 1
        /\ result.outcome \in {"none", "returned"}

\* a run succeeded although the first of its two registered observers raised
\* at every step; the second was notified each time
C19_Witness ==
    /\ pc = "returned" /\ result.outcome = "returned" /\ result.success
    /\ Len(progress.callbacks) = 2
    /\ UserRaises(progress.callbacks[1]) /\ ~UserRaises(progress.callbacks[2])
    /\ Len(events) = 2 * TOTAL_STEPS
    /\ events[1].raised /\ ~events[2].raised

\* the number of the step an operation belongs to
StepOf(operation) == CHOOSE s \in 1..TOTAL_STEPS : StepNames[s] = operation

\* total_progress of an event is exactly (file_index - 1 + step/6) / N * 100
ReportsFileProgress(e, N) ==
    e.total_progress.num * (TOTAL_STEPS * N)
        = ((e.file_index - 1) * TOTAL_STEPS + StepOf(e.operation)) * 100
              * e.total_progress.den

\* C20: every event the batch caller's observer receives while file i (0-based)
\* of N is processed reports file_index = i + 1, that file as current_file and
\* total_progress = (i + step/6)/N*100; so total_progress never decreases over
\* the batch, never exceeds 100 and is 100 only at step 6 of the last file.
C20_BatchTotalProgress ==
    batch.active =>
        /\ \A a \in 1..Len(overall) :
              LET e == overall[a] IN
              e.observer = batch.progress_callback =>
                 /\ e.file_index \in 1..(batch.i + 1)
                 /\ e.total_files = batch.n
                 /\ e.current_file = BatchFile(batch.id, e.file_index)
                 /\ ReportsFileProgress(e, batch.n)
                 /\ e.total_progress.num <= 100 * e.total_progress.den
                 /\ (e.total_progress.num = 100 * e.total_progress.den)
                       <=> (/\ e.file_index = batch.n
                            /\ e.operation = StepNames[TOTAL_STEPS])
        /\ \A a, b \in 1..Len(overall) :
              (/\ a < b
               /\ overall[a].observer = batch.progress_callback
               /\ overall[b].observer = batch.progress_callback) =>
                 overall[a].total_progress.num * overall[b].total_progress.den
                    <= overall[b].total_progress.num * overall[a].total_progress.den

(***************************************************************************)
(* The recognition heuristics of core/omr_engine.py                        *)
(*                                                                         *)
(* An image is given by its height, its width and, per row, the number of  *)
(* dark pixels (value < 128) of the row, which is all detect_staff_lines   *)
(* reads of it.  Rows are numbered from 0 as in the code; rows[i + 1] is   *)
(* row i.                                                                  *)
(***************************************************************************)
MaxThickness == 2     \* thickest staff line drawn, in pixels
MaxStrokes == 2       \* strokes of an image that is not a five-line staff

ImageHeight == 200
ImageWidth == 800
LineLength == 600     \* dark pixels of a full staff line

\* a horizontal stroke: rows top .. top + thickness - 1, length dark pixels
Stroke(top, thickness, length) ==
    [top |-> top, thickness |-> thickness, length |-> length]

\* the dark pixels of row i of an image on which the strokes were drawn from
\* the same left end
DarkCount(strokes, i) ==
    LET covering == {s \in strokes : i \in s.top..(s.top + s.thickness - 1)} IN
    IF covering = {} THEN 0
    ELSE (CHOOSE s \in covering : \A o \in covering : o.length <= s.length).length

DrawnImage(height, strokes, lines) ==
    [height |-> height, width |-> ImageWidth,
     rows |-> [i \in 1..height |-> DarkCount(strokes, i - 1)],
     lines |-> lines]

\* the five lines of a staff, drawn thickness pixels thick around each y
StaffYs == <<100, 120, 140, 160, 180>>
FiveLineImage(thickness) ==
    DrawnImage(ImageHeight,
               {Stroke(StaffYs[k] - (thickness \div 2), thickness, LineLength) :
                    k \in 1..5},
               StaffYs)

StrokeRows == {0, 100, 105, 110, 111, 112, 199}
StrokeLengths == {100, 180, 181, 600}
Strokes == {Stroke(top, 1, length) : top \in StrokeRows, length \in StrokeLengths}

\* the sets of at most n strokes, no two on the same row
RECURSIVE StrokeSetsUpTo(_)
StrokeSetsUpTo(n) ==
    IF n = 0 THEN {{}}
    ELSE LET fewer == StrokeSetsUpTo(n - 1) IN
         fewer \cup UNION {{ss \cup {a} :
                               a \in {b \in Strokes : \A o \in ss : o.top # b.top}} :
                            ss \in fewer}

StrokeSets == StrokeSetsUpTo(MaxStrokes)

StaffImages ==
    {FiveLineImage(thickness) : thickness \in 1..MaxThickness}
    \cup {DrawnImage(ImageHeight, ss, <<>>) : ss \in StrokeSets}
    \cup {DrawnImage(height, {Stroke(0, 1, LineLength)}, <<>>) : height \in 0..2}

horizontal_projection(image) == image.rows

\* np.max(horizontal_projection)
MaxOfRows(projection) ==
    CHOOSE m \in Range(projection) : \A j \in 1..Len(projection) : projection[j] <= m

\* horizontal_projection[i] > threshold, threshold = max * 0.3: the product is
\* the exact 3 * max / 10 whenever that is an integer, so the comparison of
\* the integer count with it is the comparison of 10 * count with 3 * max
ExceedsThreshold(count, maximum) == 10 * count > 3 * maximum

\* the rows the peak loop appends, i in range(1, height - 1)
PeakRows(projection) ==
    LET height == Len(projection)
        maximum == MaxOfRows(projection) IN
    {i \in 1..(height - 2) :
        /\ ExceedsThreshold(projection[i + 1], maximum)
        /\ projection[i + 1] > projection[i]
        /\ projection[i + 1] > projection[i + 2]}

\* staff_lines: the peak rows in the order of the loop
RECURSIVE Ascending(_)
Ascending(rowSet) ==
    IF rowSet = {} THEN <<>>
    ELSE LET least == CHOOSE r \in rowSet : \A o \in rowSet : r <= o IN
         <<least>> \o Ascending(rowSet \ {least})

MIN_LINE_DISTANCE == 10

\* the second loop: a line is kept when it is the first or more than 10 rows
\* below the last line kept
RECURSIVE FilterLines(_, _)
FilterLines(staff_lines, filtered_lines) ==
    IF staff_lines = <<>> THEN filtered_lines
    ELSE LET line == Head(staff_lines) IN
         FilterLines(Tail(staff_lines),
            IF \/ filtered_lines = <<>>
               \/ line - filtered_lines[Len(filtered_lines)] > MIN_LINE_DISTANCE
            THEN Append(filtered_lines, line)
            ELSE filtered_lines)

\* np.max raises on an image without rows; the except clause returns []
detect_staff_lines(image) ==
    LET projection == horizontal_projection(image) IN
    IF Len(projection) = 0
    THEN [raised |-> TRUE, returned |-> <<>>]
    ELSE [raised |-> FALSE,
          returned |-> FilterLines(Ascending(PeakRows(projection)), <<>>)]

DetectStaffLines ==
    /\ omrImage # NoArray /\ ~omrLines.called
    /\ LET r == detect_staff_lines(omrImage) IN
       omrLines' = [called |-> TRUE, raised |-> r.raised, returned |-> r.returned]
    /\ UNCHANGED <<omrImage, omrPos, omrPitch, omrRec, noteName>>
    /\ UNCHANGED clefVars /\ UNCHANGED timingVars /\ UNCHANGED pipeVars
    /\ UNCHANGED webVars

\* _calculate_staff_position, lines 229-257: the index of the first nearest
\* line, minus 2, plus or minus a half when the line is more than 5 rows away,
\* doubled
ON_LINE_DISTANCE == 5

Distance(y, line) == IF y >= line THEN y - line ELSE line - y

\* distances.index(min(distances)), counted from 0
closest_line_idx(y, staff_lines) ==
    (CHOOSE k \in 1..Len(staff_lines) :
        /\ \A j \in 1..Len(staff_lines) :
              Distance(y, staff_lines[k]) <= Distance(y, staff_lines[j])
        /\ \A j \in 1..(k - 1) :
              Distance(y, staff_lines[j]) > Distance(y, staff_lines[k])) - 1

\* a position that calls every centroid within 5 rows of its line in-space too
MutCalculateStaffPositionNoOnLine(y, staff_lines) ==
    IF Len(staff_lines) < 5 THEN 0
    ELSE LET k == closest_line_idx(y, staff_lines)
             line == staff_lines[k + 1]
         IN  IF Distance(y, line) > 0
             THEN IF y < line THEN 2 * (k - 2) + 1 ELSE 2 * (k - 2) - 1
             ELSE 2 * (k - 2)

_calculate_staff_position(y, staff_lines) ==
    IF Len(staff_lines) < 5 THEN 0
    ELSE LET k == closest_line_idx(y, staff_lines)
             line == staff_lines[k + 1]
         IN  IF Distance(y, line) > ON_LINE_DISTANCE
             THEN IF y < line THEN 2 * (k - 2) + 1 ELSE 2 * (k - 2) - 1
             ELSE 2 * (k - 2)

\* _staff_position_to_pitch, lines 259-284
MIN_PITCH == 21
MAX_PITCH == 108
ALTO_BASE_PITCH == 60
TREBLE_BASE_PITCH == 67
BASS_BASE_PITCH == 53
DEFAULT_PITCH == 60

ClampPitch(pitch) ==
    IF pitch < MIN_PITCH THEN MIN_PITCH
    ELSE IF pitch > MAX_PITCH THEN MAX_PITCH ELSE pitch

_staff_position_to_pitch(position, clef) ==
    IF clef = "alto" THEN ClampPitch(ALTO_BASE_PITCH + position)
    ELSE IF clef = "treble" THEN ClampPitch(TREBLE_BASE_PITCH + position)
    ELSE IF clef = "bass" THEN ClampPitch(BASS_BASE_PITCH + position)
    ELSE DEFAULT_PITCH

\* detect_notes_basic, lines 197-220: one note per contour whose area is in
\* (50, 1000), in the order of the contours; the pitch is computed for "alto".
\* start_time = x / width * 4.0 s, in ticks of 1/400 s
MIN_NOTE_AREA == 50
MAX_NOTE_AREA == 1000
DETECTED_DURATION == 200     \* 0.5 s

Contour(x, y, w, h, area) == [x |-> x, y |-> y, w |-> w, h |-> h, area |-> area]

DetectedNote(contour, width, staff_lines) ==
    LET center_y == contour.y + (contour.h \div 2)
        staff_position == _calculate_staff_position(center_y, staff_lines)
    IN  Note(_staff_position_to_pitch(staff_position, "alto"),
             (contour.x * 1600) \div width, DETECTED_DURATION,
             DefaultVelocity, staff_position, NoAccidental, DefaultTie, DefaultDot)

RECURSIVE detect_notes_basic(_, _, _)
detect_notes_basic(contours, width, staff_lines) ==
    IF contours = <<>> THEN <<>>
    ELSE LET contour == Head(contours)
             rest == detect_notes_basic(Tail(contours), width, staff_lines)
         IN  IF MIN_NOTE_AREA < contour.area /\ contour.area < MAX_NOTE_AREA
             THEN <<DetectedNote(contour, width, staff_lines)>> \o rest
             ELSE rest

\* recognize_basic, lines 339-358: the clef detect_clef reported goes into the
\* metadata; the notes are those of detect_notes_basic
BASIC_CONFIDENCE == 60       \* 0.6, in hundredths

recognize_basic(clef_type, contours, width, staff_lines) ==
    RecognitionResult(detect_notes_basic(contours, width, staff_lines),
                      ScoreMetadata(<<4, 4>>, "C", 120, clef_type, "", ""),
                      <<>>, BASIC_CONFIDENCE, 0, "image", <<>>, <<>>)

(***************************************************************************)
(* The recognition specification: one of the heuristics is called          *)
(***************************************************************************)
CentroidMargin == 15  \* rows above the first and below the last staff line
PitchPosBound == 50   \* positions handed to _staff_position_to_pitch
MaxContours == 2      \* contours found on one image

StaffLineLists ==
    {StaffYs, <<100, 112, 124, 136, 148>>, <<100, 110, 120, 130, 140, 150>>,
     <<100, 120, 140, 160>>, <<>>, <<100, 104, 140, 160, 190>>}

Centroids(staff_lines) ==
    IF staff_lines = <<>> THEN 0..CentroidMargin
    ELSE (staff_lines[1] - CentroidMargin)
            ..(staff_lines[Len(staff_lines)] + CentroidMargin)

SampleContours ==
    {Contour(x, y, 12, 10, area) :
        x \in {0, 200}, y \in {95, 125, 175}, area \in {40, 80}}

InitOmr ==
    /\ omrImage \in StaffImages \cup {NoArray}
    /\ omrLines = NoStaffCall /\ omrPos = NoPosCall /\ omrPitch = NoPitchCall
    /\ omrRec = NoRecCall /\ noteName = NoNameCall
    /\ ClefIdle /\ TimingIdle /\ PipeIdle /\ WebIdle

NoOmrCall ==
    /\ omrImage = NoArray /\ ~omrPos.called /\ ~omrPitch.called /\ ~omrRec.called

CalculateStaffPosition ==
    /\ NoOmrCall
    /\ \E staff_lines \in StaffLineLists :
          \E y \in Centroids(staff_lines) :
             omrPos' = [called |-> TRUE, y |-> y, staff_lines |-> staff_lines,
                        returned |-> _calculate_staff_position(y, staff_lines)]
    /\ UNCHANGED <<omrImage, omrLines, omrPitch, omrRec, noteName>>
    /\ UNCHANGED clefVars /\ UNCHANGED timingVars /\ UNCHANGED pipeVars
    /\ UNCHANGED webVars

StaffPositionToPitch ==
    /\ NoOmrCall
    /\ \E position \in (-PitchPosBound)..PitchPosBound,
          clef \in DetectedClefs \cup {"tenor"} :
          omrPitch' = [called |-> TRUE, position |-> position, clef |-> clef,
                       returned |-> _staff_position_to_pitch(position, clef)]
    /\ UNCHANGED <<omrImage, omrLines, omrPos, omrRec, noteName>>
    /\ UNCHANGED clefVars /\ UNCHANGED timingVars /\ UNCHANGED pipeVars
    /\ UNCHANGED webVars

RecognizeBasic ==
    /\ NoOmrCall
    /\ \E clef_type \in DetectedClefs, staff_lines \in {StaffYs, <<>>},
          contours \in SeqsUpTo(SampleContours, MaxContours) :
          omrRec' = [called |-> TRUE, clef_type |-> clef_type,
                     staff_lines |-> staff_lines, contours |-> contours,
                     returned |-> recognize_basic(clef_type, contours, ImageWidth,
                                                  staff_lines)]
    /\ UNCHANGED <<omrImage, omrLines, omrPos, omrPitch, noteName>>
    /\ UNCHANGED clefVars /\ UNCHANGED timingVars /\ UNCHANGED pipeVars
    /\ UNCHANGED webVars

NextOmr ==
    \/ DetectStaffLines
    \/ CalculateStaffPosition
    \/ StaffPositionToPitch
    \/ RecognizeBasic

SpecOmr == InitOmr /\ [][NextOmr]_vars

(***************************************************************************)
(* Claims about the recognition heuristics                                 *)
(***************************************************************************)
\* row i (from 0) of the image is a line candidate: above 30% of the largest
\* row count and strictly above both neighbouring rows
IsLineCandidate(image, i) ==
    /\ i \in 1..(image.height - 2)
    /\ \A j \in 1..image.height : 10 * image.rows[i + 1] > 3 * image.rows[j]
    /\ image.rows[i + 1] > image.rows[i]
    /\ image.rows[i + 1] > image.rows[i + 2]

\* C21: detect_staff_lines returns strictly increasing rows, each a line
\* candidate, consecutive ones more than 10 rows apart; a candidate is left
\* out only when it lies within 10 rows below a returned row; for the image
\* with five lines at y = 100, 120, 140, 160, 180 it returns five rows, each
\* within 2 rows of those values.
C21_StaffLinesDetected ==
    omrLines.called =>
        LET lines == omrLines.returned IN
        /\ \A k \in 1..Len(lines) : IsLineCandidate(omrImage, lines[k])
        /\ \A k \in 1..(Len(lines) - 1) : lines[k + 1] - lines[k] > MIN_LINE_DISTANCE
        /\ \A i \in 0..(omrImage.height - 1) :
              IsLineCandidate(omrImage, i) =>
                 \E k \in 1..Len(lines) :
                    lines[k] <= i /\ i - lines[k] <= MIN_LINE_DISTANCE
                    /\ (i # lines[k] => k = Len(lines) \/ lines[k + 1] > i)
        /\ omrImage.lines = StaffYs =>
              /\ Len(lines) = 5
              /\ \A k \in 1..5 : Distance(lines[k], StaffYs[k]) <= 2

\* C23: _staff_position_to_pitch moves one semitone per position unit from the
\* anchors alto 0 -> 60, treble +2 -> 67, bass -2 -> 53, clamped to [21, 108];
\* the pitch is in [21, 108] for every position and every clef tag.
AnchorPosition(clef) == IF clef = "treble" THEN 2 ELSE IF clef = "bass" THEN -2 ELSE 0
AnchorPitch(clef) == IF clef = "treble" THEN 67 ELSE IF clef = "bass" THEN 53 ELSE 60

C23_PositionToPitch ==
    omrPitch.called =>
        /\ omrPitch.returned \in MIN_PITCH..MAX_PITCH
        /\ omrPitch.clef \in DetectedClefs =>
              omrPitch.returned =
                 ClampPitch(AnchorPitch(omrPitch.clef)
                               + (omrPitch.position - AnchorPosition(omrPitch.clef)))

\* the first line nearest to row y, counted from 0
IsNearestLine(k, y, lines) ==
    /\ k \in 0..(Len(lines) - 1)
    /\ \A j \in 1..Len(lines) : Distance(y, lines[k + 1]) <= Distance(y, lines[j])
    /\ \A j \in 1..k : Distance(y, lines[j]) > Distance(y, lines[k + 1])

\* C24: with at least five staff lines _calculate_staff_position returns
\* 2(k-2) for a centroid within 5 rows of its nearest line k (the first on a
\* tie), 2(k-2)+1 for one further above it and 2(k-2)-1 for one further below
\* it, so an even value on a line and an odd one in a space; with fewer than
\* five lines it returns 0.
C24_StaffPosition ==
    omrPos.called =>
        LET y == omrPos.y
            lines == omrPos.staff_lines
        IN  IF Len(lines) < 5 THEN omrPos.returned = 0
            ELSE \E k \in 0..(Len(lines) - 1) :
                    /\ IsNearestLine(k, y, lines)
                    /\ Distance(y, lines[k + 1]) <= 5 =>
                          /\ omrPos.returned = 2 * (k - 2)
                          /\ omrPos.returned % 2 = 0
                    /\ (Distance(y, lines[k + 1]) > 5 /\ y < lines[k + 1]) =>
                          /\ omrPos.returned = 2 * (k - 2) + 1
                          /\ omrPos.returned % 2 = 1
                    /\ (Distance(y, lines[k + 1]) > 5 /\ y > lines[k + 1]) =>
                          /\ omrPos.returned = 2 * (k - 2) - 1
                          /\ omrPos.returned % 2 = 1

\* a centroid midway between the first two of five lines was given the space
\* below the first line
C24_Witness ==
    /\ omrPos.called /\ omrPos.staff_lines = StaffYs /\ omrPos.y = 110
    /\ omrPos.returned = -5

\* C25: every note of a recognition result has the pitch that the clef of the
\* result's own metadata gives to the note's staff position.
C25_PitchUsesReportedClef ==
    omrRec.called =>
        \A i \in 1..Len(omrRec.returned.notes) :
            omrRec.returned.notes[i].pitch =
                _staff_position_to_pitch(omrRec.returned.notes[i].staff_position,
                                         omrRec.returned.metadata.clef_type)

EvenlySpaced(lines) ==
    \A k \in 1..(Len(lines) - 1) : lines[k + 1] - lines[k] = lines[2] - lines[1]

\* C27: with at least five evenly spaced staff lines, a centroid higher on the
\* page (smaller y) never gets a smaller staff position than a lower one.
C27_PositionIncreasesUpward ==
    (omrPos.called /\ Len(omrPos.staff_lines) >= 5 /\ EvenlySpaced(omrPos.staff_lines)) =>
        \A y2 \in Centroids(omrPos.staff_lines) :
            omrPos.y < y2 =>
                omrPos.returned >= _calculate_staff_position(y2, omrPos.staff_lines)

(***************************************************************************)
(* Note names (utils/music_utils.py).  A name is the sequence of its       *)
(* characters, so that upper-casing and the split at the first digit or    *)
(* minus sign are what the code does to the string.                        *)
(***************************************************************************)
NOTE_TO_MIDI ==
    (<<"C">> :> 0) @@ (<<"C", "#">> :> 1) @@ (<<"D", "b">> :> 1) @@ (<<"D">> :> 2)
    @@ (<<"D", "#">> :> 3) @@ (<<"E", "b">> :> 3) @@ (<<"E">> :> 4) @@ (<<"F">> :> 5)
    @@ (<<"F", "#">> :> 6) @@ (<<"G", "b">> :> 6) @@ (<<"G">> :> 7)
    @@ (<<"G", "#">> :> 8) @@ (<<"A", "b">> :> 8) @@ (<<"A">> :> 9)
    @@ (<<"A", "#">> :> 10) @@ (<<"B", "b">> :> 10) @@ (<<"B">> :> 11)

\* {v: k for k, v in NOTE_TO_MIDI.items() if '#' not in k and 'b' not in k}
MIDI_TO_NOTE ==
    [v \in {NOTE_TO_MIDI[k] : k \in {n \in DOMAIN NOTE_TO_MIDI : Len(n) = 1}} |->
        CHOOSE k \in DOMAIN NOTE_TO_MIDI : Len(k) = 1 /\ NOTE_TO_MIDI[k] = v]

SharpNames ==
    (1 :> <<"C", "#">>) @@ (3 :> <<"D", "#">>) @@ (6 :> <<"F", "#">>)
    @@ (8 :> <<"G", "#">>) @@ (10 :> <<"A", "#">>)
FlatNames ==
    (1 :> <<"D", "b">>) @@ (3 :> <<"E", "b">>) @@ (6 :> <<"G", "b">>)
    @@ (8 :> <<"A", "b">>) @@ (10 :> <<"B", "b">>)

Digits == <<"0", "1", "2", "3", "4", "5", "6", "7", "8", "9">>
IsDigit(char) == \E d \in 1..10 : Digits[d] = char
DigitValue(char) == (CHOOSE d \in 1..10 : Digits[d] = char) - 1

\* f"{octave}" for an octave of -1 .. 9
FormatOctave(octave) ==
    IF octave < 0 THEN <<"-", Digits[(-octave) + 1]>> ELSE <<Digits[octave + 1]>>

DefaultName == <<"C", "4">>

\* midi_to_note_name, lines 66-105
midi_to_note_name(midi_pitch, use_sharps) ==
    IF midi_pitch \notin 0..127 THEN DefaultName
    ELSE LET octave == (midi_pitch \div 12) - 1
             note_index == midi_pitch % 12
             note_name == IF note_index \in DOMAIN MIDI_TO_NOTE
                          THEN MIDI_TO_NOTE[note_index]
                          ELSE IF use_sharps THEN SharpNames[note_index]
                          ELSE FlatNames[note_index]
         IN  note_name \o FormatOctave(octave)

\* str.upper() on one character: the letters a-g of the names are the only
\* lower-case characters that occur
Upper(char) ==
    IF char = "a" THEN "A" ELSE IF char = "b" THEN "B" ELSE IF char = "c" THEN "C"
    ELSE IF char = "d" THEN "D" ELSE IF char = "e" THEN "E"
    ELSE IF char = "f" THEN "F" ELSE IF char = "g" THEN "G" ELSE char

UpperName(name) == [i \in 1..Len(name) |-> Upper(name[i])]

\* int(octave_str): an optional minus sign, then digits only
IsIntLiteral(chars) ==
    LET digits == IF chars # <<>> /\ chars[1] = "-" THEN Tail(chars) ELSE chars IN
    digits # <<>> /\ \A i \in 1..Len(digits) : IsDigit(digits[i])

RECURSIVE DigitsValue(_)
DigitsValue(digits) ==
    IF digits = <<>> THEN 0
    ELSE 10 * DigitsValue(SubSeq(digits, 1, Len(digits) - 1))
            + DigitValue(digits[Len(digits)])

IntOf(chars) ==
    IF chars[1] = "-" THEN -DigitsValue(Tail(chars)) ELSE DigitsValue(chars)

DEFAULT_MIDI == 60

\* note_name_to_midi, lines 108-150: every exception returns 60
note_name_to_midi(note_name) ==
    LET upper == UpperName(note_name)
        starts == {i \in 1..Len(upper) : IsDigit(upper[i]) \/ upper[i] = "-"}
    IN  IF starts = {} THEN DEFAULT_MIDI
        ELSE LET i == CHOOSE a \in starts : \A b \in starts : a <= b
                 octave_str == SubSeq(upper, i, Len(upper))
                 note_part == SubSeq(upper, 1, i - 1)
             IN  IF ~IsIntLiteral(octave_str) THEN DEFAULT_MIDI
                 ELSE IF note_part \notin DOMAIN NOTE_TO_MIDI THEN DEFAULT_MIDI
                 ELSE LET midi_pitch == (IntOf(octave_str) + 1) * 12
                                           + NOTE_TO_MIDI[note_part]
                      IN  IF midi_pitch \in 0..127 THEN midi_pitch ELSE DEFAULT_MIDI

(***************************************************************************)
(* The note-name specification: a pitch is formatted, a name is parsed     *)
(***************************************************************************)
MidiPitches == -1..128

\* names a caller writes by hand
WrittenNames ==
    {<<"D", "b", "4">>, <<"C", "#", "4">>, <<"C", "4">>, <<"A", "4">>,
     <<"c", "#", "4">>, <<"B", "b", "3">>, <<"C", "-", "1">>, <<"G", "9">>,
     <<"A", "9">>, <<"H", "4">>, <<"C">>, <<"C", "4", "#">>, <<"C", "1", "0">>}

InitNames ==
    /\ noteName = NoNameCall
    /\ omrImage = NoArray /\ omrLines = NoStaffCall /\ omrPos = NoPosCall
    /\ omrPitch = NoPitchCall /\ omrRec = NoRecCall
    /\ ClefIdle /\ TimingIdle /\ PipeIdle /\ WebIdle

MidiToNoteName ==
    /\ noteName.stage = 0
    /\ \E midi_pitch \in MidiPitches, use_sharps \in BOOLEAN :
          noteName' = [stage |-> 1, formatted |-> TRUE, midi_pitch |-> midi_pitch,
                       use_sharps |-> use_sharps,
                       name |-> midi_to_note_name(midi_pitch, use_sharps),
                       returned |-> 0]
    /\ UNCHANGED <<omrImage, omrLines, omrPos, omrPitch, omrRec>>
    /\ UNCHANGED clefVars /\ UNCHANGED timingVars /\ UNCHANGED pipeVars
    /\ UNCHANGED webVars

\* note_name_to_midi on the name just formatted, or on a written name
NoteNameToMidi ==
    /\ noteName.stage < 2
    /\ \E name \in (IF noteName.stage = 1 THEN {noteName.name} ELSE WrittenNames) :
          noteName' = [noteName EXCEPT !.stage = 2, !.name = name,
                                       !.returned = note_name_to_midi(name)]
    /\ UNCHANGED <<omrImage, omrLines, omrPos, omrPitch, omrRec>>
    /\ UNCHANGED clefVars /\ UNCHANGED timingVars /\ UNCHANGED pipeVars
    /\ UNCHANGED webVars

NextNames ==
    \/ MidiToNoteName
    \/ NoteNameToMidi

SpecNames == InitNames /\ [][NextNames]_vars

\* C22: a pitch of 0..127 formatted with sharps or with flats parses back to
\* itself, and the written names Db4 and C#4 both parse to 61.
C22_NameRoundTrip ==
    noteName.stage = 2 =>
        /\ (noteName.formatted /\ noteName.midi_pitch \in 0..127) =>
              noteName.returned = noteName.midi_pitch
        /\ noteName.name \in {<<"D", "b", "4">>, <<"C", "#", "4">>} =>
              noteName.returned = 61

(***************************************************************************)
(* Claims about the transpose and the output step                          *)
(***************************************************************************)
\* step 4 of the current run has been entered
TransposeStepEntered ==
    pc \in {"step5", "step6", "returned"} /\ progress.current_step >= 4

\* C28: the transpose step converts to treble exactly when the detected clef
\* is alto; with any other detected clef the run does not fail: the
\* recognition result itself goes to the output step (same notes, same clef,
\* no warning added) and the run goes through steps 5 and 6.
C28_TransposeOnlyAlto ==
    TransposeStepEntered =>
        LET recognized == run.recognition_result IN
        IF recognized.metadata.clef_type = "alto"
        THEN /\ run.converted_result
                   = convert_recognition_result(recognized, "treble").result
             /\ run.converted_result.metadata.clef_type = "treble"
        ELSE /\ run.converted_result = recognized
             /\ pc = "returned" =>
                   /\ result.outcome = "returned" /\ result.success
                   /\ progress.current_step = TOTAL_STEPS
                   /\ result.converted_result = recognized

\* C29: a run that returns success = True has written at least one output
\* file, whatever formats were requested.
C29_SuccessHasOutput ==
    (pc = "returned" /\ result.outcome = "returned" /\ result.success) =>
        result.output_files # {}

(***************************************************************************)
(* The web front end (web/app.py): the task record of one upload, the      *)
(* start_conversion requests on it, each handled by a thread of the        *)
(* server, and the background threads they start.  A step of a handler is  *)
(* one read or one group of writes of the record, which is shared and not  *)
(* guarded by a lock.                                                      *)
(***************************************************************************)
MaxProgressCalls == 1   \* progress callbacks of one background conversion

\* lines 102-110: the record upload_file stores
UploadedTask ==
    [present |-> TRUE, status |-> "uploaded", progress |-> 0,
     message |-> "uploaded", output_files |-> {}, error |-> "None"]

InitWeb ==
    /\ WebIdle
    /\ ClefIdle /\ TimingIdle /\ PipeIdle /\ OmrIdle

\* POST /upload, lines 64-120: a task record is created with status uploaded
UploadFile ==
    /\ \E t \in TaskIds :
          /\ ~conversion_tasks[t].present
          /\ conversion_tasks' = [conversion_tasks EXCEPT ![t] = UploadedTask]
    /\ statusLog' = Append(statusLog, "uploaded")
    /\ UNCHANGED <<requests, threads>>
    /\ UNCHANGED clefVars /\ UNCHANGED timingVars /\ UNCHANGED pipeVars
    /\ UNCHANGED omrVars

\* POST /convert/<task_id>, lines 130-135: the lookup and the status check
StartConversionCheck ==
    /\ \E r \in Requests, t \in TaskIds :
          /\ requests[r].pc = "idle"
          /\ requests' = [requests EXCEPT ![r] =
                IF ~conversion_tasks[t].present
                THEN [pc |-> "done", task_id |-> t, response |-> 404]
                ELSE IF conversion_tasks[t].status # "uploaded"
                THEN [pc |-> "done", task_id |-> t, response |-> 400]
                ELSE [pc |-> "checked", task_id |-> t, response |-> 0]]
    /\ UNCHANGED <<conversion_tasks, threads, statusLog>>
    /\ UNCHANGED clefVars /\ UNCHANGED timingVars /\ UNCHANGED pipeVars
    /\ UNCHANGED omrVars

\* lines 138-140: status, progress and message are written
StartConversionUpdate ==
    /\ \E r \in Requests :
          /\ requests[r].pc = "checked"
          /\ conversion_tasks' = [conversion_tasks EXCEPT ![requests[r].task_id] =
                [@ EXCEPT !.status = "processing", !.progress = 0,
                          !.message = "processing"]]
          /\ requests' = [requests EXCEPT ![r].pc = "updated"]
    /\ statusLog' = Append(statusLog, "processing")
    /\ UNCHANGED threads
    /\ UNCHANGED clefVars /\ UNCHANGED timingVars /\ UNCHANGED pipeVars
    /\ UNCHANGED omrVars

\* lines 187-191: the background thread is started and 200 is returned
StartConversionThread ==
    /\ \E r \in Requests :
          /\ requests[r].pc = "updated"
          /\ threads' = Append(threads, [pc |-> "running", request |-> r,
                                         task_id |-> requests[r].task_id,
                                         calls |-> 0])
          /\ requests' = [requests EXCEPT ![r].pc = "done", ![r].response = 200]
    /\ UNCHANGED <<conversion_tasks, statusLog>>
    /\ UNCHANGED clefVars /\ UNCHANGED timingVars /\ UNCHANGED pipeVars
    /\ UNCHANGED omrVars

\* lines 152-154: progress_callback of a background conversion writes progress
\* and message of the record
BackgroundProgress ==
    /\ \E k \in 1..Len(threads) :
          /\ threads[k].pc = "running" /\ threads[k].calls < MaxProgressCalls
          /\ conversion_tasks' = [conversion_tasks EXCEPT ![threads[k].task_id] =
                [@ EXCEPT !.progress = 50, !.message = "step"]]
          /\ threads' = [threads EXCEPT ![k].calls = @ + 1]
    /\ UNCHANGED <<requests, statusLog>>
    /\ UNCHANGED clefVars /\ UNCHANGED timingVars /\ UNCHANGED pipeVars
    /\ UNCHANGED omrVars

\* lines 161-184: the conversion returned success (completed), returned a
\* failure or raised (failed)
BackgroundFinish ==
    /\ \E k \in 1..Len(threads), success \in BOOLEAN :
          /\ threads[k].pc = "running"
          /\ conversion_tasks' = [conversion_tasks EXCEPT ![threads[k].task_id] =
                IF success
                THEN [@ EXCEPT !.status = "completed", !.progress = 100,
                               !.message = "completed", !.output_files = {"png"}]
                ELSE [@ EXCEPT !.status = "failed", !.error = "error",
                               !.message = "failed"]]
          /\ threads' = [threads EXCEPT ![k].pc = "finished"]
          /\ statusLog' = Append(statusLog, IF success THEN "completed" ELSE "failed")
    /\ UNCHANGED requests
    /\ UNCHANGED clefVars /\ UNCHANGED timingVars /\ UNCHANGED pipeVars
    /\ UNCHANGED omrVars

NextWeb ==
    \/ UploadFile
    \/ StartConversionCheck
    \/ StartConversionUpdate
    \/ StartConversionThread
    \/ BackgroundProgress
    \/ BackgroundFinish

SpecWeb == InitWeb /\ [][NextWeb]_vars

\* the moves a task status may make
StatusMoves ==
    {<<"uploaded", "processing">>, <<"processing", "completed">>,
     <<"processing", "failed">>}

\* C30: under every interleaving of requests on one task id the status only
\* moves uploaded -> processing -> completed or failed, at most one background
\* conversion is started, and a start request that finds a status other than
\* uploaded is rejected and leaves the task record as it was.
C30_OneConversionPerTask ==
    /\ [](/\ \A i \in 1..(Len(statusLog) - 1) :
                statusLog[i] # statusLog[i + 1] =>
                   <<statusLog[i], statusLog[i + 1]>> \in StatusMoves
          /\ Len(threads) <= 1)
    /\ [][\A r \in Requests, t \in TaskIds :
            (/\ requests[r].pc = "idle" /\ requests'[r].pc # "idle"
             /\ requests'[r].task_id = t
             /\ conversion_tasks[t].present
             /\ conversion_tasks[t].status # "uploaded") =>
                /\ requests'[r].pc = "done" /\ requests'[r].response = 400
                /\ conversion_tasks' = conversion_tasks
                /\ threads' = threads]_vars

=============================================================================
